---------------------------- MODULE Spec2Model ----------------------------
(***************************************************************************)
(* A model of the watchtower event pipeline:                               *)
(*   - RingClient.wait_for_event          (src/ring_client.py)             *)
(*   - polling_loop                       (src/main.py)                    *)
(*   - EventStore.write_event / get_event (src/event_store.py)             *)
(*   - the write_event call of blink_polling_loop (src/blink_monitor.py)   *)
(*   - the detector, the recognizer, the alerter and the command handler   *)
(*                                                                         *)
(* RingSpec  : the Ring upstream and the calls of wait_for_event.           *)
(* Spec      : one polling_loop coroutine, the Ring upstream, the wall     *)
(*             clock, the SwitchBot actuator and the event store, with the *)
(*             store working normally.  One action per await of the loop. *)
(* StoreSpec : the two coordinators (polling_loop, blink_polling_loop) and *)
(*             a dashboard reader sharing the one aiosqlite connection of  *)
(*             the EventStore, one action per awaited statement, with      *)
(*             statements that may raise.                                  *)
(* LoopSpec  : polling_loop or blink_polling_loop (src/blink_monitor.py)  *)
(*             with the failures of every step of a cycle and the alerts. *)
(* ShutdownSpec : LoopSpec with the cancellation of the coordinator's     *)
(*             task at any await (src/app.py, lifespan).                   *)
(* DetectorSpec : the callers of ObjectDetector.detect and the worker of  *)
(*             its executor (src/object_detector.py).                      *)
(* GallerySpec : FaceRecognizer.identify in one thread, reload / enroll   *)
(*             in another (src/face_recognizer.py).                        *)
(* IdentifySpec : identify alone on frames of several faces.               *)
(* EnrollSpec : enroll, deletion and reload of the people endpoints        *)
(*             (src/dashboard/router.py).                                  *)
(* DeleteSpec : the deletion of a person against identify.                 *)
(* CaptureSpec : RingClient.capture_frame (src/ring_client.py).            *)
(* CropSpec  : crop_person_bbox (src/object_detector.py).                  *)
(* AlerterSpec : TelegramAlerter with two callers, mute and the monotonic  *)
(*             clock (src/telegram_alerter.py).                            *)
(* CommandSpec : TelegramCommandHandler.run with get_updates, the updates  *)
(*             of a batch and the sleep (src/telegram_commands.py).        *)
(* UnlockSpec : polling_loop, blink_polling_loop, the /unlock command and *)
(*             the dashboard's unlock endpoint side by side.               *)
(***************************************************************************)
EXTENDS Integers, Sequences, FiniteSets, TLC

\* ------------------------------------------------------------------ bounds
\* Occurrences the Ring upstream reports during a run (ids 1..MaxOccurrences).
MaxOccurrences == 3
\* Clock ticks during a run.
MaxTicks == 3
\* write_event calls made during a run of StoreSpec.
MaxCalls == 2
\* Detections of one frame handed to write_event in StoreSpec.
MaxDet == 2
\* Cycles blink_polling_loop starts during a run.
MaxMotions == 2
\* detect calls each caller makes during a run of DetectorSpec.
MaxDetectCalls == 2
\* Image files in known_faces_dir during a run of GallerySpec.
MaxFaces == 2
\* Faces located in one frame handed to identify in IdentifySpec.
MaxFrameFaces == 2
\* Width and height, in pixels, of the frames cropped in CropSpec.
MaxFrameSide == 2
\* Updates get_updates hands to the command handler during a run.
MaxUpdates == 3

\* --------------------------------------------------------- program constants
\* Config.UNLOCK_COOLDOWN, seconds.
UNLOCK_COOLDOWN == 60

\* Config.BLINK_MOTION_COOLDOWN, seconds (read by blink_polling_loop).
BLINK_MOTION_COOLDOWN == 60

\* ThreadPoolExecutor(max_workers=1) of ObjectDetector.
max_workers == 1

\* FaceRecognizer.tolerance, in tenths of the distance unit (0.5).
tolerance == 5

\* capture_frame: range(1, 25), the download attempts of one call.
CAPTURE_ATTEMPTS == 24

\* telegram_alerter.COALESCE_SECONDS.
COALESCE_SECONDS == 60

\* _send_photo: range(2), first try and one retry.
SEND_ATTEMPTS == 2

\* _cmd_mute: minutes = int(args) if args else 30.
DEFAULT_MUTE_MINUTES == 30

\* One clock tick, seconds: half a cooldown, so that elapsed times of 0, 30,
\* 60 and 90 s occur around the cooldown threshold.
TickSeconds == UNLOCK_COOLDOWN \div 2
\* time.time() when the loop starts: the epoch is long past, so the first
\* elapsed = time.time() - 0 is never below the cooldown.
StartTime == UNLOCK_COOLDOWN + UNLOCK_COOLDOWN
MaxTime == StartTime + MaxTicks * TickSeconds

\* ------------------------------------------------------------------- values
\* Python's None, for a name, a path or a door outcome.
None == "None"
\* RingClient._last_event_id before the baseline; also "no result" of a call.
NoId == <<>>
\* str(latest["id"]): ids are integers upstream and strings in the client and
\* in the store.
ToStr(id) == <<"str", id>>
\* The names the recognizer can return.
Names == {"alice"}
\* The "kind" key of an upstream history entry; "absent" is a missing key.
UpstreamKinds == {"motion", "ding", "absent"}
\* What switchbot.unlock can do when awaited through run_in_executor.
UnlockOutcomes == {"true", "false", "raise"}
CAMERA_ID == "front_door"
BLINK_CAMERA_ID == "blink"

\* A Detection (label, confidence in percent).
Det(l, c) == [label |-> l, confidence |-> c]
\* What detector.detect can return for a frame: no detection, objects
\* without a person, and persons of different confidence among other objects.
DetectorOutputs ==
    { <<>>,
      <<Det("car", 80)>>,
      <<Det("person", 60), Det("car", 80), Det("person", 90)>> }
\* The kinds of the occurrences that arrive while the pipeline runs.
PipelineKinds == {"motion"}

VARIABLES
    \* ---- environment
    now,              \* time.time(), seconds
    up_newest,        \* id of the newest upstream occurrence, 0: empty history
    up_kind,          \* "kind" of the newest upstream occurrence
    \* ---- RingClient
    last_event_id,    \* RingClient._last_event_id
    \* ---- polling_loop
    pc,               \* the await the coroutine is at
    cycle,            \* the locals of the current cycle
    last_unlock_time, \* polling_loop's last_unlock_time
    \* ---- EventStore (one aiosqlite connection)
    db_events,        \* rows of table events, in insertion order
    db_detections,    \* rows of table detections, in insertion order
    \* ---- StoreSpec: write_event / get_event coroutines
    w_pc,             \* per coordinator: the statement of write_event it is at
    w_call,           \* per coordinator: the index in calls of its running call
    r_pc,             \* the dashboard reader's position
    r_event,          \* the id of the event the reader has selected
    \* ---- history variables (observations, never read by the program)
    poll_log,         \* the first two wait_for_event calls that returned
    last_poll,        \* the last wait_for_event call that returned
    baseline,         \* the id the baseline was set to, 0: not yet
    yielded,          \* the ids wait_for_event returned, in order
    fetched,          \* the ids whose capture_frame returned a frame
    matched_log,      \* the cycles in which identify returned a name
    unlock_log,       \* the calls of switchbot.unlock
    unfetched,        \* the ids whose capture_frame returned None
    thumbs,           \* the ids whose frame was handed to save_thumbnail
    identified,       \* the ids whose frame or crop was handed to identify
    cancel_sent,      \* per coordinator: its task has been cancelled
    \* ---- blink_polling_loop
    b_pc,             \* the await the coroutine is at
    b_cycle,          \* the locals of the current cycle
    b_last_motion_time, \* blink_polling_loop's last_motion_time
    has_alerter,      \* "alerter is not None"
    alerts,           \* history: the alerts sent, in order
    b_hist,           \* history: what was done for which cycle
    calls,            \* StoreSpec: the write_event calls
    reads,            \* StoreSpec: the result get_event has just returned
    \* ---- ObjectDetector (one ThreadPoolExecutor)
    d_pc,             \* per caller of detect: where its call is
    d_queue,          \* the executor's work queue: callers, oldest first
    d_count,          \* per caller: the detect calls it has made
    d_submitted,      \* history: the callers in the order they submitted
    d_started,        \* history: the callers in the order _predict_sync began
    \* ---- FaceRecognizer
    known_encodings,  \* FaceRecognizer.known_encodings
    known_names,      \* FaceRecognizer.known_names
    known_faces_dir,  \* the image files of known_faces_dir, per person
    reload_t,         \* the thread running reload() / enroll()
    identify_t,       \* the thread running identify()
    \* ---- the services called on their own
    capture,          \* the running call of RingClient.capture_frame
    crop,             \* the last call of ObjectDetector.crop_person_bbox
    telegram,         \* TelegramAlerter and its running alert_* calls
    commands,         \* TelegramCommandHandler and what it has done
    dashboard         \* the dashboard's lock endpoints and their calls

envVars == <<now, up_newest, up_kind>>
ringVars == <<last_event_id, pc, cycle, last_unlock_time>>
dbVars == <<db_events, db_detections>>
storeProcVars == <<w_pc, w_call, r_pc, r_event, calls, reads>>
pollHist == <<poll_log, last_poll, baseline, yielded>>
cycleHist == <<fetched, matched_log, unlock_log, unfetched, thumbs, identified>>
\* What no step of polling_loop, of the store or of the upstream touches.
blinkVars == <<b_pc, b_cycle, b_last_motion_time, has_alerter, alerts, b_hist>>
detVars == <<d_pc, d_queue, d_count, d_submitted, d_started>>
galleryVars == <<known_encodings, known_names, known_faces_dir, reload_t,
                 identify_t>>
toolVars == <<capture, crop, telegram, commands, dashboard>>
poolVars == <<detVars, galleryVars, toolVars>>
\* What no step of the recognizer touches.
galleryRest == <<detVars, toolVars, cancel_sent, blinkVars, envVars, ringVars,
                 dbVars, storeProcVars, pollHist, cycleHist>>
\* What no step of the services called on their own touches.
toolRest == <<detVars, galleryVars, cancel_sent, blinkVars, envVars, ringVars,
              dbVars, storeProcVars, pollHist, cycleHist>>
sideVars == <<cancel_sent, blinkVars, poolVars>>
vars == <<envVars, ringVars, dbVars, storeProcVars, pollHist, cycleHist,
          sideVars>>

\* ------------------------------------------------------------- RingClient

\* latest.get("kind", "motion")
KindOf(kind) == IF kind = "absent" THEN "motion" ELSE kind

\* wait_for_event with "self._last_event_id = event_id" missing from the
\* new-event branch.
wait_for_event_KeepsLast(last, newest, kind) ==
    IF newest = 0
    THEN [ret |-> NoId, last |-> last]
    ELSE IF last = NoId
    THEN [ret |-> NoId, last |-> ToStr(newest)]
    ELSE IF ToStr(newest) # last
    THEN [ret |-> <<newest, KindOf(kind)>>, last |-> last]
    ELSE [ret |-> NoId, last |-> last]

\* wait_for_event without the baseline branch: the first occurrence seen is
\* returned like any new one.
wait_for_event_YieldsFirst(last, newest, kind) ==
    IF newest = 0
    THEN [ret |-> NoId, last |-> last]
    ELSE IF ToStr(newest) # last
    THEN [ret |-> <<newest, KindOf(kind)>>, last |-> ToStr(newest)]
    ELSE [ret |-> NoId, last |-> last]

\* RingClient.wait_for_event after the await of async_history(limit=1):
\* newest is the id of history[0] (0: the history is empty), last is
\* _last_event_id.  Gives the value returned and the new _last_event_id.
wait_for_event(last, newest, kind) ==
    IF newest = 0
    THEN [ret |-> NoId, last |-> last]
    ELSE IF last = NoId
    THEN [ret |-> NoId, last |-> ToStr(newest)]
    ELSE IF ToStr(newest) # last
    THEN [ret |-> <<newest, KindOf(kind)>>, last |-> ToStr(newest)]
    ELSE [ret |-> NoId, last |-> last]

\* ------------------------------------------------------------ polling_loop

\* identify has not been called in the cycle.
NoArg == [on |-> "nothing", box |-> 0]

\* The locals of a cycle before it has an occurrence (person_crop: whether
\* crop_person_bbox returned an image; identify_arg: what identify was
\* called on).
IdleCycle ==
    [ recording_id |-> 0, event_kind |-> None, recorded_at |-> 0,
      detections |-> <<>>, person_crop |-> FALSE, identify_arg |-> NoArg,
      matched_name |-> None,
      unlock_granted |-> FALSE, door_action |-> "none" ]

\* The cooldown check with elapsed = time.time(), last_unlock_time forgotten.
CooldownElapsed_SinceEpoch(t, last) == t >= UNLOCK_COOLDOWN

\* elapsed >= Config.UNLOCK_COOLDOWN, elapsed = time.time() - last_unlock_time
CooldownElapsed(t, last) == t - last >= UNLOCK_COOLDOWN

\* The dispatch decision without the second cooldown check.
Dispatches_OnEveryMatch(m, t, last) == m # None

\* "if matched_name is not None: ... if elapsed >= Config.UNLOCK_COOLDOWN":
\* whether the cycle awaits switchbot.unlock.
Dispatches(m, t, last) == m # None /\ CooldownElapsed(t, last)

\* "if frame is None: ... continue" ignored: the cycle goes on without a frame.
AfterCapture_IgnoresNone(got) == "detect"

\* "frame = await ring.capture_frame(...); if frame is None: continue": where
\* the loop goes after the frame fetch.
AfterCapture(got) == IF got THEN "detect" ELSE "poll"

\* The handlers without "except Exception": every exception ends the loop.
AfterException_Propagates(exc) == "stopped"

\* The except clauses of the loop: CancelledError is re-raised and ends the
\* coroutine, any other exception is logged and followed by sleep(5).
AfterException(exc) ==
    IF exc = "CancelledError" THEN "stopped" ELSE "error_sleep"

\* person_detections = [d for d in detections if d.label == "person"]
HasPerson(dets) == \E i \in DOMAIN dets : dets[i].label = "person"

\* best_person = max(person_detections, key=lambda d: d.confidence): the
\* position in detections of the first person of the highest confidence.
BestPerson(dets) ==
    LET persons == {i \in DOMAIN dets : dets[i].label = "person"} IN
    CHOOSE i \in persons :
        \A j \in persons :
            \/ dets[j].confidence < dets[i].confidence
            \/ dets[j].confidence = dets[i].confidence /\ i <= j

\* The crop taken from person_detections[0] instead of the best person.
IdentifyArg_FirstPerson(dets, cropped) ==
    IF cropped
    THEN [ on |-> "crop",
           box |-> CHOOSE i \in DOMAIN dets :
                       /\ dets[i].label = "person"
                       /\ \A j \in 1..(i - 1) : dets[j].label # "person" ]
    ELSE [on |-> "frame", box |-> 0]

\* What recognizer.identify is called on in a cycle with a person detection:
\* person_crop, the crop of best_person's box, or the full frame when
\* crop_person_bbox returned None.
IdentifyArg(dets, cropped) ==
    IF cropped THEN [on |-> "crop", box |-> BestPerson(dets)]
    ELSE [on |-> "frame", box |-> 0]

\* The unlock branch without "if success:": every dispatch counts as granted.
UnlockEffect_IgnoresResult(outcome, t, last) ==
    [unlock_granted |-> TRUE, door_action |-> "unlocked", last |-> t]

\* The unlock branch with door_action = "unlocked" missing.
UnlockEffect_KeepsDoorAction(outcome, t, last) ==
    IF outcome = "true"
    THEN [unlock_granted |-> TRUE, door_action |-> "none", last |-> t]
    ELSE [unlock_granted |-> FALSE, door_action |-> "none", last |-> last]

\* The unlock branch with "last_unlock_time = time.time()" ahead of
\* "if success:": every awaited call restarts the cooldown.
UnlockEffect_StampsEveryCall(outcome, t, last) ==
    IF outcome = "true"
    THEN [unlock_granted |-> TRUE, door_action |-> "unlocked", last |-> t]
    ELSE [unlock_granted |-> FALSE, door_action |-> "none", last |-> t]

\* The unlock branch with "last_unlock_time = time.time()" missing.
UnlockEffect_KeepsTimestamp(outcome, t, last) ==
    IF outcome = "true"
    THEN [unlock_granted |-> TRUE, door_action |-> "unlocked", last |-> last]
    ELSE [unlock_granted |-> FALSE, door_action |-> "none", last |-> last]

\* The outcome of the awaited switchbot.unlock on the cycle's fields:
\* success sets last_unlock_time, unlock_granted and door_action; a false
\* result or an exception leaves them as initialised.
UnlockEffect(outcome, t, last) ==
    IF outcome = "true"
    THEN [unlock_granted |-> TRUE, door_action |-> "unlocked", last |-> t]
    ELSE [unlock_granted |-> FALSE, door_action |-> "none", last |-> last]

\* --------------------------------------------------------------- EventStore

\* The keyword arguments of a write_event call.
\* (face_confidence and face_distance are always None and thumbnail_path is
\* opaque to the store: the three columns are left out.)
EventArgs(camera, rec_at, rid, kind, name, granted, action, dets) ==
    [ camera_id |-> camera, recorded_at |-> rec_at, recording_id |-> rid,
      event_type |-> kind, person_name |-> name, unlock_granted |-> granted,
      door_action |-> action, detections |-> dets ]

\* INSERT INTO events on a table whose id is no key: every row gets id 1.
InsertEvent_SameId(events, a, t) ==
    Append(events,
        [ id |-> 1, camera_id |-> a.camera_id,
          recorded_at |-> a.recorded_at, recording_id |-> a.recording_id,
          event_type |-> a.event_type, person_name |-> a.person_name,
          unlock_granted |-> a.unlock_granted, door_action |-> a.door_action,
          created_at |-> t,
          committed |-> FALSE ])

\* INSERT INTO events: the new row gets the next AUTOINCREMENT id and
\* created_at = datetime('now'); it is uncommitted until the next commit.
InsertEvent(events, a, t) ==
    Append(events,
        [ id |-> Len(events) + 1, camera_id |-> a.camera_id,
          recorded_at |-> a.recorded_at, recording_id |-> a.recording_id,
          event_type |-> a.event_type, person_name |-> a.person_name,
          unlock_granted |-> a.unlock_granted, door_action |-> a.door_action,
          created_at |-> t,
          committed |-> FALSE ])

\* executemany(INSERT INTO detections ...): one row per detection dict, in
\* list order; n is the number of rows inserted (all of them unless a row's
\* INSERT raises, which leaves the rows before it in the open transaction).
InsertDetections(detrows, event_id, dets, n) ==
    detrows \o [ i \in 1..n |->
        [ event_id |-> event_id, label |-> dets[i].label,
          confidence |-> dets[i].confidence, committed |-> FALSE ] ]

\* db.commit(): the connection has one transaction; a commit makes every
\* row inserted on the connection so far durable.
Commit(rows) == [ i \in DOMAIN rows |-> [rows[i] EXCEPT !.committed = TRUE] ]


\* ------------------------------------------------------------- environment

\* Time passes: during any await, between any two steps.
Tick ==
    /\ now < MaxTime
    /\ now' = now + TickSeconds
    /\ UNCHANGED <<sideVars, up_newest, up_kind, ringVars, dbVars, storeProcVars,
                   pollHist, cycleHist>>

\* The doorbell reports a new occurrence; its id becomes history[0].
Arrive(kind) ==
    /\ up_newest < MaxOccurrences
    /\ up_newest' = up_newest + 1
    /\ up_kind' = kind
    /\ UNCHANGED <<sideVars, now, ringVars, dbVars, storeProcVars, pollHist, cycleHist>>

\* ----------------------------------------------- polling_loop, step by step

\* result = await ring.wait_for_event(...): None -> sleep(2), continue;
\* otherwise the cycle starts (recording_id, event_kind, recorded_at).
WaitForEvent ==
    /\ pc = "poll"
    /\ LET r == wait_for_event(last_event_id, up_newest, up_kind) IN
        /\ last_event_id' = r.last
        /\ IF r.ret = NoId
           THEN /\ pc' = "poll"
                /\ cycle' = cycle
           ELSE /\ pc' = "capture"
                /\ cycle' = [IdleCycle EXCEPT !.recording_id = r.ret[1],
                                              !.event_kind = r.ret[2],
                                              !.recorded_at = now]
        /\ baseline' = IF last_event_id = NoId /\ r.last # NoId
                       THEN up_newest ELSE baseline
        /\ yielded' = IF r.ret = NoId THEN yielded
                      ELSE Append(yielded, r.ret[1])
    /\ UNCHANGED <<sideVars, envVars, last_unlock_time, dbVars, storeProcVars,
                   poll_log, last_poll, cycleHist>>

\* async_history raises (network): caught by "except Exception", sleep(5).
WaitForEventRaises ==
    /\ pc = "poll"
    /\ pc' = AfterException("Exception")
    /\ UNCHANGED <<sideVars, envVars, last_event_id, cycle, last_unlock_time, dbVars,
                   storeProcVars, pollHist, cycleHist>>

\* frame = await ring.capture_frame(recording_id): None -> continue; else
\* save_thumbnail (synchronous, never raises) and on to detection.
CaptureFrame ==
    /\ pc = "capture"
    /\ \E got \in BOOLEAN :
        /\ pc' = AfterCapture(got)
        /\ fetched' = IF got THEN fetched \cup {cycle.recording_id}
                      ELSE fetched
        /\ unfetched' = IF got THEN unfetched
                        ELSE unfetched \cup {cycle.recording_id}
    /\ cycle' = IF pc' = "poll" THEN IdleCycle ELSE cycle
    /\ thumbs' = IF pc' = "poll" THEN thumbs
                 ELSE thumbs \cup {cycle.recording_id}
    /\ UNCHANGED <<sideVars, envVars, last_event_id, last_unlock_time, dbVars,
                   storeProcVars, pollHist, matched_log, unlock_log,
                   identified>>

\* detections = await detector.detect(frame); with a person detection
\* crop_person_bbox(frame, best_person) returns an image or None and the
\* loop awaits identify next, without one matched_name stays None and the
\* loop goes on to write_event.
Detect ==
    /\ pc = "detect"
    /\ \E dets \in DetectorOutputs, cropped \in BOOLEAN :
        /\ cycle' = [cycle EXCEPT !.detections = dets,
                                  !.person_crop = HasPerson(dets) /\ cropped]
        /\ pc' = IF HasPerson(dets) THEN "identify" ELSE "write"
    /\ UNCHANGED <<sideVars, envVars, last_event_id, last_unlock_time, dbVars,
                   storeProcVars, pollHist, cycleHist>>

\* model.predict raises inside the executor: the cycle ends in the handler.
DetectRaises ==
    /\ pc = "detect"
    /\ pc' = AfterException("Exception")
    /\ cycle' = IdleCycle
    /\ UNCHANGED <<sideVars, envVars, last_event_id, last_unlock_time, dbVars,
                   storeProcVars, pollHist, cycleHist>>

\* matched_name = await run_in_executor(recognizer.identify, ...), then the
\* synchronous decision: unlock_granted = False, door_action = "none", and
\* the unlock is dispatched iff a name matched and the cooldown has elapsed;
\* switchbot.unlock is invoked in this step and awaited in the next.
Identify ==
    /\ pc = "identify"
    /\ \E m \in Names \cup {None} :
        /\ cycle' = [cycle EXCEPT
                        !.matched_name = m,
                        !.identify_arg =
                            IdentifyArg(cycle.detections, cycle.person_crop)]
        /\ pc' = IF Dispatches(m, now, last_unlock_time)
                 THEN "unlock" ELSE "write"
        /\ matched_log' =
             IF m = None THEN matched_log
             ELSE Append(matched_log,
                    [ recording_id |-> cycle.recording_id, name |-> m,
                      in_cooldown |->
                          now - last_unlock_time < UNLOCK_COOLDOWN ])
        /\ unlock_log' =
             IF Dispatches(m, now, last_unlock_time)
             THEN Append(unlock_log,
                    [ recording_id |-> cycle.recording_id,
                      outcome |-> "pending", at |-> now ])
             ELSE unlock_log
    /\ identified' = identified \cup {cycle.recording_id}
    /\ UNCHANGED <<sideVars, envVars, last_event_id, last_unlock_time, dbVars,
                   storeProcVars, pollHist, fetched, unfetched, thumbs>>

\* identify raises (its debug-frame mkdir/save is outside its try block).
IdentifyRaises ==
    /\ pc = "identify"
    /\ pc' = AfterException("Exception")
    /\ cycle' = IdleCycle
    /\ identified' = identified \cup {cycle.recording_id}
    /\ UNCHANGED <<sideVars, envVars, last_event_id, last_unlock_time, dbVars,
                   storeProcVars, pollHist, fetched, matched_log, unlock_log,
                   unfetched, thumbs>>

\* success = await run_in_executor(switchbot.unlock) returns or raises,
\* inside try/except.
Unlock ==
    /\ pc = "unlock"
    /\ \E outcome \in UnlockOutcomes :
        LET e == UnlockEffect(outcome, now, last_unlock_time) IN
        /\ cycle' = [cycle EXCEPT !.unlock_granted = e.unlock_granted,
                                  !.door_action = e.door_action]
        /\ last_unlock_time' = e.last
        /\ unlock_log' = [unlock_log EXCEPT
                             ![Len(unlock_log)].outcome = outcome]
    /\ pc' = "write"
    /\ UNCHANGED <<sideVars, envVars, last_event_id, dbVars, storeProcVars, pollHist,
                   fetched, matched_log, unfetched, thumbs, identified>>

\* The write_event call of polling_loop.
RingArgs(c) ==
    EventArgs(CAMERA_ID, c.recorded_at, ToStr(c.recording_id), c.event_kind,
              c.matched_name, c.unlock_granted, c.door_action, c.detections)

\* event_id = await store.write_event(...): the event row, its detection
\* rows, the commit.  Then the loop polls again.
WriteEvent ==
    /\ pc = "write"
    /\ LET a == RingArgs(cycle) IN
        /\ db_events' = Commit(InsertEvent(db_events, a, now))
        /\ db_detections' =
             Commit(InsertDetections(db_detections, Len(db_events) + 1,
                                     a.detections, Len(a.detections)))
    /\ pc' = "poll"
    /\ cycle' = IdleCycle
    /\ UNCHANGED <<sideVars, envVars, last_event_id, last_unlock_time, storeProcVars,
                   pollHist, cycleHist>>

\* except Exception: log, await asyncio.sleep(5), back to the top of the loop.
ErrorSleep ==
    /\ pc = "error_sleep"
    /\ pc' = "poll"
    /\ UNCHANGED <<sideVars, envVars, last_event_id, cycle, last_unlock_time, dbVars,
                   storeProcVars, pollHist, cycleHist>>

\* The locals of a blink cycle before motion is seen.
IdleBlinkCycle ==
    [ n |-> 0, recorded_at |-> 0, detections |-> <<>>,
      person_crop |-> FALSE, identify_arg |-> NoArg, matched_name |-> None,
      event_id |-> 0 ]

\* ---------------------------------------------------------- ObjectDetector

\* Who calls detector.detect: the two coordinators and the dashboard.
DetectCallers == {CAMERA_ID, BLINK_CAMERA_ID, "dashboard"}

\* ObjectDetector(...) constructed: no call made, the executor idle.
DetectorIdle ==
    /\ d_pc = [c \in DetectCallers |-> "idle"]
    /\ d_queue = <<>>
    /\ d_count = [c \in DetectCallers |-> 0]
    /\ d_submitted = <<>>
    /\ d_started = <<>>

\* ---------------------------------------------------------- FaceRecognizer

\* The persons whose images can be in known_faces_dir.
GalleryNames == {"alice", "bob"}
\* face_encodings of an image of each person, as a point on a line (tenths).
FaceOf == [n \in GalleryNames |-> IF n = "alice" THEN 10 ELSE 20]
\* The encoding of a face located in a frame handed to identify: alice's
\* face, a face at distance tolerance from both persons, bob's face, and a
\* stranger just beyond the tolerance.
FaceProbes == {12, 15, 26}
\* The faces identify locates in a frame, in the order of face_locations:
\* none, one or several.
Frames == UNION { [1..n -> FaceProbes] : n \in 0..MaxFrameFaces }

\* Faces detectable in an image handed to enroll.
MaxImageFaces == 2
ImageFaces == 0..MaxImageFaces

Abs(x) == IF x < 0 THEN 0 - x ELSE x

\* sorted(directory.iterdir()) reduced to the names the files give:
\* alice_1.jpg, ..., bob_1.jpg, ...
Listing(dir) ==
    [ k \in 1..(dir["alice"] + dir["bob"]) |->
        IF k <= dir["alice"] THEN "alice" ELSE "bob" ]

\* The encodings _load_known_faces appends for a listing.
EncodingsOf(names) == [ k \in DOMAIN names |-> FaceOf[names[k]] ]

\* face_recognition.face_distance(known_encodings, encoding)
face_distance(encodings, encoding) ==
    [ k \in DOMAIN encodings |-> Abs(encodings[k] - encoding) ]

\* np.argmin(distances): the first index of the least distance.
argmin(distances) ==
    CHOOSE k \in DOMAIN distances :
        /\ \A j \in DOMAIN distances : distances[k] <= distances[j]
        /\ \A j \in DOMAIN distances :
              distances[j] = distances[k] => k <= j

\* identify's loop body without "if len(distances) == 0: continue".
AfterDistances_NoEmptyCheck(distances) == "name"

\* "if len(distances) == 0: continue": on to the next face; otherwise on to
\* known_names[best_idx].
AfterDistances(distances) ==
    IF Len(distances) = 0 THEN "continue" ELSE "name"

\* "for encoding in unknown_encodings": after the face f the loop takes the
\* next face, or ends and identify returns None.
NextFace(faces, f) == IF f < Len(faces) THEN "distances" ELSE "done"

\* The tolerance test with "<" for "<=".
MatchName_StrictTolerance(distances, names) ==
    IF Len(distances) = 0 THEN "ValueError"
    ELSE IF argmin(distances) > Len(names) THEN "IndexError"
    ELSE IF distances[argmin(distances)] < tolerance
         THEN names[argmin(distances)]
         ELSE None

\* best_idx = argmin(distances); closest_name = known_names[best_idx];
\* the name if distances[best_idx] <= tolerance, else None.  argmin of an
\* empty array and an index past the end of known_names raise.
MatchName(distances, names) ==
    IF Len(distances) = 0 THEN "ValueError"
    ELSE IF argmin(distances) > Len(names) THEN "IndexError"
    ELSE IF distances[argmin(distances)] <= tolerance
         THEN names[argmin(distances)]
         ELSE None

RECURSIVE identifyFrom(_, _, _)
\* identify's loop from the face f on, on a gallery that no reload touches
\* meanwhile: the first face whose closest embedding is within the tolerance
\* decides.
identifyFrom(names, faces, f) ==
    IF f > Len(faces) THEN None
    ELSE LET d == face_distance(EncodingsOf(names), faces[f]) IN
         IF AfterDistances(d) = "continue"
         THEN identifyFrom(names, faces, f + 1)
         ELSE IF MatchName(d, names) = None
              THEN identifyFrom(names, faces, f + 1)
              ELSE MatchName(d, names)

\* identify(frame) on a gallery that no reload touches meanwhile.
identify(names, faces) == identifyFrom(names, faces, 1)

\* list.clear() that leaves the list as it is.
Cleared_Keeps(list) == list

\* self.known_encodings.clear() / self.known_names.clear()
Cleared(list) == <<>>

\* enroll accepting any image with a face.
EnrollValid_AtLeastOne(n_faces) == n_faces >= 1

\* enroll's validation: "if len(locations) == 0: raise ValueError",
\* "if len(locations) > 1: raise ValueError".
EnrollValid(n_faces) == ~(n_faces = 0) /\ ~(n_faces > 1)

\* No enroll call has ended yet.
NoEnroll == [ name |-> None, n_faces |-> 0, outcome |-> None ]

\* The thread of reload / enroll / delete: where it is in reload, the
\* listing it loads and the file it is at.  History: the gallery before the
\* reload, the names whose deletion this reload follows, the names deleted
\* with the reload completed and not enrolled since, the last enroll call.
ReloadIdle ==
    [ pc |-> "idle", listing |-> <<>>, k |-> 0, before |-> <<>>,
      deleting |-> {}, gone |-> {}, last_enroll |-> NoEnroll ]

\* The thread of identify: where it is, the faces of its frame, the face it
\* is at, the distances it computed, its result.  History: what an atomic
\* reload would let it return, the gallery it was called on and whether no
\* reload has run during the call, the names deleted before the call, the
\* embedding at best_idx in known_encodings as the call read it (0: none).
IdentifyIdle ==
    [ pc |-> "idle", faces |-> <<>>, f |-> 0, distances |-> <<>>,
      result |-> None, accept |-> {}, clean |-> FALSE,
      forbidden |-> {}, closest |-> 0 ]

\* FaceRecognizer(known_faces_dir, tolerance) constructed on the directory
\* dir: __init__ has loaded every file, no call is running.
GalleryLoaded(dir) ==
    /\ known_faces_dir = dir
    /\ known_names = Listing(dir)
    /\ known_encodings = EncodingsOf(Listing(dir))
    /\ reload_t = ReloadIdle
    /\ identify_t = IdentifyIdle

\* known_faces_dir with one image of alice.
OneFace == [n \in GalleryNames |-> IF n = "alice" THEN 1 ELSE 0]

\* ----------------------------------------------------------- specification

\* The state after RingClient(...), EventStore.initialize() and the start of
\* polling_loop: the doorbell's history is empty or holds one old occurrence.
\* ------------------------------------------- RingClient.capture_frame

\* What one await of doorbell.async_recording_download and the extraction
\* that follows it can come to: the download raises, returns no data, or
\* returns data from which _extract_frame returns a frame, returns None
\* (cap.read() gave nothing) or raises.
DownloadOutcomes ==
    {"raises", "no_data", "frame", "no_frame", "extract_raises"}

\* The attempts that neither raised nor returned nothing.
GotData == {"frame", "no_frame", "extract_raises"}

\* A loop that never runs out of attempts.
MoreAttempts_Always(attempt) == TRUE

\* for attempt in range(1, 25): is there an attempt after this one?
MoreAttempts(attempt) == attempt < CAPTURE_ATTEMPTS

\* One pass of the loop body up to the sleep: return _extract_frame's
\* value when the download gave data; every Exception, of the download and
\* of the extraction alike, is passed over and the loop sleeps.
AfterDownload(outcome) ==
    IF outcome = "frame" THEN [ to |-> "done", result |-> "frame" ]
    ELSE IF outcome = "no_frame" THEN [ to |-> "done", result |-> None ]
    ELSE [ to |-> "sleep", result |-> "pending" ]

\* No capture_frame call is running.  History: failed counts the attempts
\* of the call that raised or returned no data.
CaptureIdle ==
    [ pc |-> "idle", recording_id |-> 0, attempt |-> 0, failed |-> 0,
      result |-> "pending" ]

\* ------------------------------------- ObjectDetector.crop_person_bbox

\* Coordinates are in quarters of a pixel, so that the fractional boxes the
\* detector reports occur: 4 is one pixel, 6 is 1.5 pixels.

\* img.size of the frames handed to crop_person_bbox, in pixels.
img_width == MaxFrameSide
img_height == MaxFrameSide

\* The values a bounding-box coordinate takes: from one pixel outside the
\* frame on one side to one pixel outside on the other.
BoxCoords == (0 - 4)..(4 * MaxFrameSide + 4)

Max(a, b) == IF a >= b THEN a ELSE b
Min(a, b) == IF a <= b THEN a ELSE b

\* A box used as it comes, without clamping.
Clamp_Skipped(bbox) == bbox

\* x1 = max(0.0, bbox_x1); y1 = max(0.0, bbox_y1);
\* x2 = min(float(img_width), bbox_x2); y2 = min(float(img_height), bbox_y2)
Clamp(bbox) ==
    << Max(0, bbox[1]), Max(0, bbox[2]),
       Min(4 * img_width, bbox[3]), Min(4 * img_height, bbox[4]) >>

\* if x2 - x1 <= 0 or y2 - y1 <= 0
Degenerate(box) == box[3] - box[1] <= 0 \/ box[4] - box[2] <= 0

\* int(round(v)) of Python for v = q / 4: to the nearest integer, a half
\* going to the even neighbour.  The result is in pixels.
PilRound(q) ==
    LET fl == IF q >= 0 THEN q \div 4
              ELSE 0 - ((4 - 1 - q) \div 4)
        rem == q - 4 * fl
    IN IF 2 * rem < 4 THEN fl
       ELSE IF 2 * rem > 4 THEN fl + 1
       ELSE IF fl % 2 = 0 THEN fl ELSE fl + 1

\* img.crop(box): Image._crop rounds every coordinate and cuts the pixel
\* rectangle between them; the size of the image it returns, in pixels.
CropSize(box) ==
    << PilRound(box[3]) - PilRound(box[1]),
       PilRound(box[4]) - PilRound(box[2]) >>

\* crop.save(buf, format="JPEG"): an image without pixels cannot be written.
SaveRaises(size) == size[1] <= 0 \/ size[2] <= 0

\* crop_person_bbox(frame_bytes, detection): the size of the JPEG returned,
\* or None.  Every exception inside (the frame does not decode, the save
\* fails) is logged and None is returned.
crop_person_bbox(decodable, bbox) ==
    IF ~decodable THEN None
    ELSE IF Degenerate(Clamp(bbox)) THEN None
    ELSE IF SaveRaises(CropSize(Clamp(bbox))) THEN None
    ELSE CropSize(Clamp(bbox))

\* crop_person_bbox has not been called.
NoCrop == [ pc |-> "idle", decodable |-> TRUE, bbox |-> <<0, 0, 0, 0>>,
           result |-> None ]

\* ------------------------------------------------------ TelegramAlerter

\* alert_stranger, alert_unlock, alert_blink_motion.
AlertCategories == {"stranger", "unlock", "blink_motion"}

\* The coroutines that call alert_*: polling_loop and blink_polling_loop.
AlertCallers == {CAMERA_ID, BLINK_CAMERA_ID}

\* What one await of bot.send_photo / bot.send_message can come to.
SendOutcomes == {"ok", "RetryAfter", "TelegramError"}

\* No alert of a category has passed yet.
NoPass == 0 - 1

\* No alert_* call of a caller is running.
NoAlertCall == [ pc |-> "idle", cat |-> None, attempt |-> 0 ]

\* TelegramAlerter(...) constructed when time.monotonic() reads t0: the
\* three timestamps and _muted_until are 0.0, no call is running.  History:
\* per category the time its latest alert passed the checks, and the latest
\* alert call with what the checks decided.
TelegramAlerter(t0) ==
    [ clock |-> t0, created |-> t0,
      last |-> [cat \in AlertCategories |-> 0],
      muted_until |-> 0,
      calls |-> [c \in AlertCallers |-> NoAlertCall],
      passed_at |-> [cat \in AlertCategories |-> NoPass],
      last_call |-> [ cat |-> None, at |-> 0, muted |-> FALSE,
                      before |-> NoPass, verdict |-> None ] ]

\* is_muted: time.monotonic() < self._muted_until
is_muted(a) == a.clock < a.muted_until

\* A window of half the length.
CoalesceActive_HalfWindow(t, last) == 2 * (t - last) < COALESCE_SECONDS

\* if now - self._last_<category>_alert < COALESCE_SECONDS
CoalesceActive(t, last) == t - last < COALESCE_SECONDS

\* The checks of alert_<category>: muted, inside the coalesce window, or
\* passed on to _send_photo.
AlertVerdict(a, cat) ==
    IF is_muted(a) THEN "muted"
    ELSE IF CoalesceActive(a.clock, a.last[cat]) THEN "coalesced"
    ELSE "passed"

\* A send whose TelegramError goes on to try again.
AfterSend_RetriesEveryError(outcome) ==
    IF outcome = "ok" THEN "return" ELSE "sleep"

\* _send_photo after one send: return on success, sleep on RetryAfter,
\* log and return on any other TelegramError.
AfterSend(outcome) ==
    IF outcome = "ok" THEN "return"
    ELSE IF outcome = "RetryAfter" THEN "sleep"
    ELSE "return"

\* An alert_* that puts the timestamp back when nothing was delivered.
TimestampAfterSend_RestoredOnFailure(stamp, outcome) ==
    IF outcome = "ok" THEN stamp ELSE 0

\* self._last_<category>_alert once a send of _send_photo has ended with
\* outcome: _send_photo returns None whatever happened and alert_* has no
\* statement after "await self._send_photo(...)", so it is as it was set.
TimestampAfterSend(stamp, outcome) == stamp

\* for attempt in range(2): is there an attempt after this one?
MoreSendAttempts(attempt) == attempt < SEND_ATTEMPTS

\* time.monotonic() when the alerter is constructed: its reference point is
\* undefined (on Linux the time since boot), so it may be below
\* COALESCE_SECONDS or far above it.
MonotonicStarts == {TickSeconds, StartTime}

\* ----------------------------------------------- TelegramCommandHandler

\* The chat the handler is configured with (Config.TELEGRAM_CHAT_ID), and
\* the chats updates come from: that chat, a group chat (group ids are
\* negative) and another private chat.
AuthorizedChat == 7
ChatIds == {AuthorizedChat, 0 - AuthorizedChat, AuthorizedChat + 10}

\* message.text as _handle_update takes it apart: whether it starts with
\* "/", its first word lowered and without @botname, and the rest.
Text(slash, command, args) ==
    [ slash |-> slash, command |-> command, args |-> args ]

Texts ==
    { Text(TRUE, "/unlock", ""), Text(TRUE, "/lock", ""),
      Text(TRUE, "/mute", ""), Text(TRUE, "/mute", "off"),
      Text(TRUE, "/status", ""), Text(TRUE, "/bogus", ""),
      Text(FALSE, "hello", "") }

\* update.message: a message of a chat with a text, or None (an update
\* that is no message).
Messages == [ chat_id : ChatIds, text : Texts ]
NoMessage == [ chat_id |-> 0, text |-> Text(FALSE, "", "") ]

\* The keys of the handlers dict.
Handlers ==
    {"/status", "/unlock", "/lock", "/snap", "/events", "/mute", "/help",
     "/start"}

\* A handler that takes every chat for the configured one.
Authorized_Everyone(chat_id, configured) == TRUE

\* not (str(message.chat_id) != self._chat_id)
Authorized(chat_id, configured) == ToStr(chat_id) = configured

\* What _handle_update does with a message: nothing, the reply to an
\* unknown command, or the handler of the command.
Route(message, configured) ==
    IF message = NoMessage THEN "ignore"
    ELSE IF ~Authorized(message.chat_id, configured) THEN "ignore"
    ELSE IF ~message.text.slash THEN "ignore"
    ELSE IF message.text.command \notin Handlers THEN "unknown"
    ELSE message.text.command

\* How _handle_update can end for a route: it returns; the command handler
\* raises, which "except Exception" catches and answers with an error reply;
\* or an exception leaves _handle_update (_reply swallows TelegramError
\* only), which run catches.
HandleOutcomes(to) ==
    IF to = "ignore" THEN {"returns"}
    ELSE IF to = "unknown" THEN {"returns", "raises"}
    ELSE {"returns", "handler_raises", "raises"}

\* _offset left as it was when _handle_update raises.
OffsetAfter_OnReturn(offset, update_id, outcome) ==
    IF outcome = "raises" THEN offset ELSE update_id + 1

\* "self._offset = update.update_id + 1" ahead of "await
\* self._handle_update(update)": _offset once the update is dealt with,
\* however _handle_update ends.
OffsetAfter(offset, update_id, outcome) == update_id + 1

\* await self._bot.get_updates(offset=self._offset, timeout=10): the
\* update_ids returned when the bot has received the updates 1..updates,
\* in ascending order, none below offset.
get_updates(offset, updates) ==
    LET first == IF offset > 1 THEN offset ELSE 1 IN
    [ i \in 1..(IF updates >= first THEN updates - first + 1 ELSE 0)
        |-> first + i - 1 ]

\* TelegramCommandHandler(...) constructed for the chat chat_id, run not
\* yet at its first get_updates.  updates: the updates the bot has received
\* (update_id 1..updates); batch: the updates of the running for loop not
\* yet reached.  History: the update_ids passed to _handle_update, the calls
\* of switchbot.unlock and lock, the chats that were sent a reply, and the
\* last update with the handler that ran for it and how it ended.
CommandHandler(chat_id) ==
    [ chat_id |-> ToStr(chat_id), offset |-> 0,
      pc |-> "poll", updates |-> 0, batch |-> <<>>, handled |-> <<>>,
      unlocks |-> 0, locks |-> 0, replied |-> {},
      last |-> [ message |-> NoMessage, handler |-> None,
                 outcome |-> None ] ]

\* The dashboard is up; no request has been made to /api/unlock (status:
\* the HTTP status of the last response).
DashboardIdle == [ status |-> 0 ]

CommandsIdle == CommandHandler(AuthorizedChat)

InitState ==
    /\ now = StartTime
    /\ last_event_id = NoId
    /\ cycle = IdleCycle
    /\ last_unlock_time = 0
    /\ db_events = <<>>
    /\ db_detections = <<>>
    /\ w_pc = [c \in {CAMERA_ID, BLINK_CAMERA_ID} |-> "idle"]
    /\ w_call = [c \in {CAMERA_ID, BLINK_CAMERA_ID} |-> 0]
    /\ r_pc = "idle"
    /\ r_event = 0
    /\ poll_log = <<>>
    /\ last_poll = [ before |-> NoId, seen |-> 0, kind |-> "absent",
                     ret |-> NoId, after |-> NoId ]
    /\ baseline = 0
    /\ yielded = <<>>
    /\ fetched = {}
    /\ matched_log = <<>>
    /\ unlock_log = <<>>
    /\ unfetched = {}
    /\ thumbs = {}
    /\ identified = {}
    /\ cancel_sent = [c \in {CAMERA_ID, BLINK_CAMERA_ID} |-> FALSE]
    /\ calls = <<>>
    /\ reads = [event_id |-> 0, detections |-> <<>>]
    /\ b_cycle = IdleBlinkCycle
    /\ b_last_motion_time = 0
    /\ alerts = <<>>
    /\ b_hist = [ fetched |-> {}, unfetched |-> {}, thumbs |-> {},
                  identified |-> {}, rows |-> {} ]
    /\ DetectorIdle
    /\ capture = CaptureIdle
    /\ crop = NoCrop
    /\ dashboard = DashboardIdle

\* The state after construction, no message sent to the bot yet.
InitData ==
    /\ InitState
    /\ commands = CommandsIdle

\* polling_loop has been started; blink_polling_loop has not.
InitCommon ==
    /\ InitData
    /\ telegram = TelegramAlerter(StartTime)
    /\ GalleryLoaded(OneFace)
    /\ pc = "poll"
    /\ b_pc = "off"
    /\ has_alerter = FALSE

Init ==
    /\ InitCommon
    /\ \/ up_newest = 0 /\ up_kind = "absent"
       \/ up_newest = 1 /\ up_kind \in PipelineKinds

Next ==
    \/ Tick
    \/ \E kind \in PipelineKinds : Arrive(kind)
    \/ WaitForEvent
    \/ WaitForEventRaises
    \/ CaptureFrame
    \/ Detect
    \/ DetectRaises
    \/ Identify
    \/ IdentifyRaises
    \/ Unlock
    \/ WriteEvent
    \/ ErrorSleep

Spec == Init /\ [][Next]_vars


\* ------------------------------------------------------------------ RingSpec

\* One call of RingClient.wait_for_event, observed from outside;
\* async_history(limit=1) returns the newest occurrence (seen = up_newest)
\* or an empty list (seen = 0). 
Poll(seen) ==
    /\ LET r == wait_for_event(last_event_id, seen, up_kind) IN
        /\ last_event_id' = r.last
        /\ poll_log' = IF Len(poll_log) < 2
                       THEN Append(poll_log, [seen |-> seen, ret |-> r.ret])
                       ELSE poll_log
        /\ last_poll' = [ before |-> last_event_id, seen |-> seen,
                          kind |-> up_kind, ret |-> r.ret, after |-> r.last ]
        /\ baseline' = IF last_event_id = NoId /\ r.last # NoId
                       THEN seen ELSE baseline
        /\ yielded' = IF r.ret = NoId THEN yielded
                      ELSE Append(yielded, r.ret[1])
    /\ UNCHANGED <<sideVars, envVars, pc, cycle, last_unlock_time, dbVars,
                   storeProcVars, cycleHist>>

RingInit ==
    /\ InitCommon
    /\ \/ up_newest = 0 /\ up_kind = "absent"
       \/ up_newest = 1 /\ up_kind \in UpstreamKinds

RingNext ==
    \/ \E kind \in UpstreamKinds : Arrive(kind)
    \/ \E seen \in {0, up_newest} : Poll(seen)

RingSpec == RingInit /\ [][RingNext]_vars

\* ----------------------------------------------------------------- StoreSpec

Coordinators == {CAMERA_ID, BLINK_CAMERA_ID}

\* The detection dicts of a frame with k detections.
DetList(k) ==
    [ i \in 1..k |-> IF i = 1 THEN Det("person", 90)
                     ELSE IF i = 2 THEN Det("car", 80) ELSE Det("dog", 70) ]

\* The locals of polling_loop when it reaches write_event, for a frame with
\* k detections, the name m identify returned (None without a person
\* detection), the time t of the cooldown check and the unlock outcome.
RingCycleAtWrite(n, k, m, t, last, outcome) ==
    LET e == IF Dispatches(m, t, last)
             THEN UnlockEffect(outcome, t, last)
             ELSE [unlock_granted |-> FALSE, door_action |-> "none",
                   last |-> last]
    IN [ IdleCycle EXCEPT !.recording_id = n, !.event_kind = "motion",
                          !.recorded_at = t, !.detections = DetList(k),
                          !.matched_name = m,
                          !.unlock_granted = e.unlock_granted,
                          !.door_action = e.door_action ]

\* The write_event call of blink_polling_loop: no recording id, no unlock.
BlinkArgs(rec_at, m, dets) ==
    EventArgs(BLINK_CAMERA_ID, rec_at, NoId, "motion", m, FALSE, "none", dets)

\* What a coordinator can hand to write_event as its n-th call.
CycleArgs(c, n) ==
    IF c = CAMERA_ID
    THEN { RingArgs(RingCycleAtWrite(n, k, m, now, last, outcome)) :
             k \in {0, MaxDet}, m \in Names \cup {None},
             last \in {0, now}, outcome \in UnlockOutcomes }
    ELSE { BlinkArgs(now, m, DetList(k)) :
             k \in {0, MaxDet}, m \in Names \cup {None} }

\* A coordinator calls write_event.
CallWriteEvent(c) ==
    /\ w_pc[c] = "idle"
    /\ Len(calls) < MaxCalls
    /\ \E a \in CycleArgs(c, Len(calls) + 1) :
        /\ a.person_name # None => HasPerson(a.detections)
        /\ calls' = Append(calls, [ caller |-> c, args |-> a, event_id |-> 0,
                                    status |-> "running" ])
    /\ w_call' = [w_call EXCEPT ![c] = Len(calls) + 1]
    /\ w_pc' = [w_pc EXCEPT ![c] = "insert_event"]
    /\ UNCHANGED <<sideVars, envVars, ringVars, dbVars, r_pc, r_event, reads,
                   pollHist, cycleHist>>

\* cursor = await self.db.execute(INSERT INTO events ...);
\* event_id = cursor.lastrowid; "if detections:" decides the next statement.
InsertEventStep(c) ==
    /\ w_pc[c] = "insert_event"
    /\ db_events' = InsertEvent(db_events, calls[w_call[c]].args, now)
    /\ calls' = [calls EXCEPT ![w_call[c]].event_id = Len(db_events) + 1]
    /\ w_pc' = [w_pc EXCEPT ![c] =
                  IF calls[w_call[c]].args.detections # <<>>
                  THEN "insert_dets" ELSE "commit"]
    /\ UNCHANGED <<sideVars, envVars, ringVars, db_detections, w_call, r_pc, r_event,
                   reads, pollHist, cycleHist>>

\* await self.db.executemany(INSERT INTO detections ...), every row inserted.
InsertDetectionsStep(c) ==
    /\ w_pc[c] = "insert_dets"
    /\ LET call == calls[w_call[c]] IN
        db_detections' = InsertDetections(db_detections, call.event_id,
                             call.args.detections, Len(call.args.detections))
    /\ w_pc' = [w_pc EXCEPT ![c] = "commit"]
    /\ UNCHANGED <<sideVars, envVars, ringVars, db_events, w_call, r_pc, r_event,
                   calls, reads, pollHist, cycleHist>>

\* await self.db.commit(); return event_id.
CommitStep(c) ==
    /\ w_pc[c] = "commit"
    /\ db_events' = Commit(db_events)
    /\ db_detections' = Commit(db_detections)
    /\ calls' = [calls EXCEPT ![w_call[c]].status = "returned"]
    /\ w_pc' = [w_pc EXCEPT ![c] = "idle"]
    /\ UNCHANGED <<sideVars, envVars, ringVars, w_call, r_pc, r_event, reads,
                   pollHist, cycleHist>>

\* A statement of write_event raises (sqlite3.Error: disk full, I/O error, a
\* constraint).  write_event has no except and no rollback: the exception
\* leaves the call with the rows inserted so far still in the connection's
\* open transaction.  An executemany that raises at its (n+1)-th row has
\* inserted n rows.
StatementRaises(c) ==
    /\ w_pc[c] \in {"insert_event", "insert_dets", "commit"}
    /\ IF w_pc[c] = "insert_dets"
       THEN LET call == calls[w_call[c]] IN
            \E n \in 0..(Len(call.args.detections) - 1) :
                db_detections' = InsertDetections(db_detections,
                                     call.event_id, call.args.detections, n)
       ELSE db_detections' = db_detections
    /\ calls' = [calls EXCEPT ![w_call[c]].status = "raised"]
    /\ w_pc' = [w_pc EXCEPT ![c] = "idle"]
    /\ UNCHANGED <<sideVars, envVars, ringVars, db_events, w_call, r_pc, r_event,
                   reads, pollHist, cycleHist>>

Reverse(seq) == [ i \in 1..Len(seq) |-> seq[Len(seq) + 1 - i] ]

\* The rows of an event handed back newest first.
SelectDetections_NewestFirst(detrows, event_id) ==
    Reverse(SelectSeq(detrows, LAMBDA d : d.event_id = event_id))

\* SELECT * FROM detections WHERE event_id = ?: on the writers' connection,
\* so uncommitted rows are seen; rows come back in rowid order.
SelectDetections(detrows, event_id) ==
    SelectSeq(detrows, LAMBDA d : d.event_id = event_id)

\* get_event(event_id), first statement: SELECT * FROM events WHERE id = ?
\* (a missing row returns None at once).
GetEventSelect ==
    /\ r_pc = "idle"
    /\ \E id \in 1..Len(db_events) :
        r_event' = id
    /\ r_pc' = "select_detections"
    /\ UNCHANGED <<sideVars, envVars, ringVars, dbVars, w_pc, w_call, calls, reads,
                   pollHist, cycleHist>>

\* get_recent_events(limit=1), first statement: SELECT * FROM events ORDER BY
\* recorded_at DESC LIMIT 1 (any of the rows with the greatest recorded_at);
\* the detections of the row are selected by the next statement.
GetRecentSelect ==
    /\ r_pc = "idle"
    /\ \E id \in 1..Len(db_events) :
        /\ \A other \in 1..Len(db_events) :
              db_events[other].recorded_at <= db_events[id].recorded_at
        /\ r_event' = id
    /\ r_pc' = "select_detections"
    /\ UNCHANGED <<sideVars, envVars, ringVars, dbVars, w_pc, w_call, calls, reads,
                   pollHist, cycleHist>>

\* get_event / get_recent_events, the SELECT of the detections and the
\* return: the caller holds the result.
GetEventReturn ==
    /\ r_pc = "select_detections"
    /\ reads' = [ event_id |-> r_event,
                  detections |-> SelectDetections(db_detections, r_event) ]
    /\ r_pc' = "returned"
    /\ r_event' = 0
    /\ UNCHANGED <<sideVars, envVars, ringVars, dbVars, w_pc, w_call, calls,
                   pollHist, cycleHist>>

\* The request that called get_event ends; the result is dropped.
ReaderDone ==
    /\ r_pc = "returned"
    /\ r_pc' = "idle"
    /\ reads' = [event_id |-> 0, detections |-> <<>>]
    /\ UNCHANGED <<sideVars, envVars, ringVars, dbVars, w_pc, w_call, r_event, calls,
                   pollHist, cycleHist>>

StoreInit ==
    /\ InitCommon
    /\ up_newest = 0
    /\ up_kind = "absent"

StoreNext ==
    \/ \E c \in Coordinators : CallWriteEvent(c)
    \/ \E c \in Coordinators : InsertEventStep(c)
    \/ \E c \in Coordinators : InsertDetectionsStep(c)
    \/ \E c \in Coordinators : CommitStep(c)
    \/ \E c \in Coordinators : StatementRaises(c)
    \/ GetEventSelect
    \/ GetRecentSelect
    \/ GetEventReturn
    \/ ReaderDone

StoreSpec == StoreInit /\ [][StoreNext]_vars


\* ------------------------------------------------------------------ LoopSpec
\* The two coordinator loops with the failures of their steps.
\* The loops share only the store, the detector and the recognizer, whose
\* calls are single steps here, so a run has one of the two loops started.

\* A statement of write_event raises before any row is inserted: the
\* exception reaches the loop's handler and the cycle ends unrecorded.
WriteEventRaises ==
    /\ pc = "write"
    /\ pc' = AfterException("Exception")
    /\ cycle' = IdleCycle
    /\ UNCHANGED <<sideVars, envVars, last_event_id, last_unlock_time, dbVars,
                   storeProcVars, pollHist, cycleHist>>

\* polling_task.cancel(): CancelledError is thrown into the coroutine at the
\* await it is suspended at, whichever that is; "except CancelledError: raise"
\* (or no handler, inside sleep(5)) ends the coroutine there.
Cancel ==
    /\ pc \in {"poll", "capture", "detect", "identify", "unlock", "write",
               "error_sleep"}
    /\ pc' = AfterException("CancelledError")
    /\ cancel_sent' = [cancel_sent EXCEPT ![CAMERA_ID] = TRUE]
    /\ UNCHANGED <<poolVars, blinkVars, envVars, last_event_id, cycle, last_unlock_time,
                   dbVars, storeProcVars, pollHist, cycleHist>>

\* A cooldown of half the length.
MotionCooldownActive_HalfWindow(t, last) ==
    2 * (t - last) < BLINK_MOTION_COOLDOWN

\* "now - last_motion_time < Config.BLINK_MOTION_COOLDOWN"
MotionCooldownActive(t, last) == t - last < BLINK_MOTION_COOLDOWN

\* "frame = await blink.get_snapshot(); if frame is None: sleep, continue"
AfterSnapshot(got) == IF got THEN "detect" ELSE "sleep"

\* The alert branches without the last "elif not detection_dicts": motion
\* without any detected object sends nothing.
AlertFor_SilentWithoutObjects(m, dets) ==
    IF m = None /\ HasPerson(dets) THEN "alert_stranger"
    ELSE IF ~HasPerson(dets) /\ dets # <<>> THEN "alert_blink_motion"
    ELSE None

\* Which alert a blink cycle sends after write_event: alert_stranger for an
\* unmatched person, alert_blink_motion for other objects or for none, and
\* nothing for a recognised person.
AlertFor(m, dets) ==
    IF m = None /\ HasPerson(dets) THEN "alert_stranger"
    ELSE IF ~HasPerson(dets) /\ dets # <<>> THEN "alert_blink_motion"
    ELSE IF dets = <<>> THEN "alert_blink_motion"
    ELSE None

\* write_event wrapped in a try/except that logs and goes on to the alerts.
AfterWriteEvent_SwallowsFailure(ok, alerter, kind) ==
    IF alerter /\ kind # None THEN "alert" ELSE "sleep"

\* Where blink_polling_loop goes after "event_id = await store.write_event":
\* an exception reaches the handler; otherwise "if alerter is not None" and
\* the alert branches, then sleep(BLINK_POLL_INTERVAL).
AfterWriteEvent(ok, alerter, kind) ==
    IF ~ok THEN AfterException("Exception")
    ELSE IF alerter /\ kind # None THEN "alert" ELSE "sleep"

\* await blink.blink.refresh(), then motion_detected and the cooldown check:
\* without motion or inside the cooldown the loop sleeps and polls again,
\* otherwise a cycle starts.
BlinkRefresh ==
    /\ b_pc = "refresh"
    /\ \E motion \in BOOLEAN :
        IF motion /\ ~MotionCooldownActive(now, b_last_motion_time)
                  /\ Cardinality(b_hist.fetched \cup b_hist.unfetched)
                       < MaxMotions
        THEN /\ b_last_motion_time' = now
             /\ b_cycle' = [IdleBlinkCycle EXCEPT
                   !.n = Cardinality(b_hist.fetched \cup b_hist.unfetched) + 1,
                   !.recorded_at = now]
             /\ b_pc' = "snapshot"
        ELSE /\ b_pc' = "sleep"
             /\ UNCHANGED <<b_last_motion_time, b_cycle>>
    /\ UNCHANGED <<poolVars, cancel_sent, has_alerter, alerts, b_hist, envVars, ringVars,
                   dbVars, storeProcVars, pollHist, cycleHist>>

\* refresh raises (network).
BlinkRefreshRaises ==
    /\ b_pc = "refresh"
    /\ b_pc' = AfterException("Exception")
    /\ UNCHANGED <<poolVars, cancel_sent, b_cycle, b_last_motion_time, has_alerter,
                   alerts, b_hist, envVars, ringVars, dbVars, storeProcVars,
                   pollHist, cycleHist>>

\* frame = await blink.get_snapshot() (catches its own exceptions): None ->
\* sleep, continue; else save_thumbnail and on to detection.
BlinkSnapshot ==
    /\ b_pc = "snapshot"
    /\ \E got \in BOOLEAN :
        /\ b_pc' = AfterSnapshot(got)
        /\ b_cycle' = IF b_pc' = "detect" THEN b_cycle ELSE IdleBlinkCycle
        /\ b_hist' = [b_hist EXCEPT
              !.fetched = IF got THEN @ \cup {b_cycle.n} ELSE @,
              !.unfetched = IF got THEN @ ELSE @ \cup {b_cycle.n},
              !.thumbs = IF b_pc' = "detect" THEN @ \cup {b_cycle.n} ELSE @]
    /\ UNCHANGED <<poolVars, cancel_sent, b_last_motion_time, has_alerter, alerts,
                   envVars, ringVars, dbVars, storeProcVars, pollHist,
                   cycleHist>>

\* detections = await detector.detect(frame), then crop_person_bbox for the
\* best person, if any.
BlinkDetect ==
    /\ b_pc = "detect"
    /\ \E dets \in DetectorOutputs, cropped \in BOOLEAN :
        /\ b_cycle' = [b_cycle EXCEPT
                          !.detections = dets,
                          !.person_crop = HasPerson(dets) /\ cropped]
        /\ b_pc' = IF HasPerson(dets) THEN "identify" ELSE "write"
    /\ UNCHANGED <<poolVars, cancel_sent, b_last_motion_time, has_alerter, alerts,
                   b_hist, envVars, ringVars, dbVars, storeProcVars, pollHist,
                   cycleHist>>

\* model.predict raises inside the executor.
BlinkDetectRaises ==
    /\ b_pc = "detect"
    /\ b_pc' = AfterException("Exception")
    /\ b_cycle' = IdleBlinkCycle
    /\ UNCHANGED <<poolVars, cancel_sent, b_last_motion_time, has_alerter, alerts,
                   b_hist, envVars, ringVars, dbVars, storeProcVars, pollHist,
                   cycleHist>>

\* matched_name = await run_in_executor(recognizer.identify, ...)
BlinkIdentify ==
    /\ b_pc = "identify"
    /\ \E m \in Names \cup {None} :
        b_cycle' = [b_cycle EXCEPT
                       !.matched_name = m,
                       !.identify_arg =
                           IdentifyArg(b_cycle.detections,
                                       b_cycle.person_crop)]
    /\ b_pc' = "write"
    /\ b_hist' = [b_hist EXCEPT !.identified = @ \cup {b_cycle.n}]
    /\ UNCHANGED <<poolVars, cancel_sent, b_last_motion_time, has_alerter, alerts,
                   envVars, ringVars, dbVars, storeProcVars, pollHist,
                   cycleHist>>

\* identify raises.
BlinkIdentifyRaises ==
    /\ b_pc = "identify"
    /\ b_pc' = AfterException("Exception")
    /\ b_cycle' = IdleBlinkCycle
    /\ b_hist' = [b_hist EXCEPT !.identified = @ \cup {b_cycle.n}]
    /\ UNCHANGED <<poolVars, cancel_sent, b_last_motion_time, has_alerter, alerts,
                   envVars, ringVars, dbVars, storeProcVars, pollHist,
                   cycleHist>>

\* event_id = await store.write_event(camera_id="blink", ...) returns.
BlinkWrite ==
    /\ b_pc = "write"
    /\ LET a == BlinkArgs(b_cycle.recorded_at, b_cycle.matched_name,
                          b_cycle.detections) IN
        /\ db_events' = Commit(InsertEvent(db_events, a, now))
        /\ db_detections' =
             Commit(InsertDetections(db_detections, Len(db_events) + 1,
                                     a.detections, Len(a.detections)))
    /\ b_pc' = AfterWriteEvent(TRUE, has_alerter,
                   AlertFor(b_cycle.matched_name, b_cycle.detections))
    /\ b_cycle' = IF b_pc' = "alert"
                  THEN [b_cycle EXCEPT !.event_id = Len(db_events) + 1]
                  ELSE IdleBlinkCycle
    /\ b_hist' = [b_hist EXCEPT
                     !.rows = @ \cup {<<b_cycle.n, Len(db_events) + 1>>}]
    /\ UNCHANGED <<poolVars, cancel_sent, b_last_motion_time, has_alerter, alerts,
                   envVars, ringVars, storeProcVars, pollHist, cycleHist>>

\* write_event raises before any row is inserted.
BlinkWriteRaises ==
    /\ b_pc = "write"
    /\ b_pc' = AfterWriteEvent(FALSE, has_alerter,
                   AlertFor(b_cycle.matched_name, b_cycle.detections))
    /\ b_cycle' = IF b_pc' = "alert" THEN b_cycle ELSE IdleBlinkCycle
    /\ UNCHANGED <<poolVars, cancel_sent, b_last_motion_time, has_alerter, alerts,
                   b_hist, envVars, ringVars, dbVars, storeProcVars, pollHist,
                   cycleHist>>

\* await alerter.alert_stranger(...) / alert_blink_motion(...) returns.
BlinkAlert ==
    /\ b_pc = "alert"
    /\ alerts' = Append(alerts,
          [ n |-> b_cycle.n, event_id |-> b_cycle.event_id,
            kind |-> AlertFor(b_cycle.matched_name, b_cycle.detections) ])
    /\ b_pc' = "sleep"
    /\ b_cycle' = IdleBlinkCycle
    /\ UNCHANGED <<poolVars, cancel_sent, b_last_motion_time, has_alerter, b_hist,
                   envVars, ringVars, dbVars, storeProcVars, pollHist,
                   cycleHist>>

\* The alert call raises (an error other than TelegramError, e.g. OSError on
\* the thumbnail file).
BlinkAlertRaises ==
    /\ b_pc = "alert"
    /\ b_pc' = AfterException("Exception")
    /\ b_cycle' = IdleBlinkCycle
    /\ UNCHANGED <<poolVars, cancel_sent, b_last_motion_time, has_alerter, alerts,
                   b_hist, envVars, ringVars, dbVars, storeProcVars, pollHist,
                   cycleHist>>

\* await asyncio.sleep(Config.BLINK_POLL_INTERVAL) at the end of an iteration,
\* or await asyncio.sleep(5) in the handler: back to the top of the loop.
BlinkSleep ==
    /\ b_pc \in {"sleep", "error_sleep"}
    /\ b_pc' = "refresh"
    /\ UNCHANGED <<poolVars, cancel_sent, b_cycle, b_last_motion_time, has_alerter,
                   alerts, b_hist, envVars, ringVars, dbVars, storeProcVars,
                   pollHist, cycleHist>>

\* The blink task is cancelled at the await it is suspended at.
BlinkCancel ==
    /\ b_pc \in {"refresh", "snapshot", "detect", "identify", "write",
                 "alert", "sleep", "error_sleep"}
    /\ b_pc' = AfterException("CancelledError")
    /\ cancel_sent' = [cancel_sent EXCEPT ![BLINK_CAMERA_ID] = TRUE]
    /\ UNCHANGED <<poolVars, b_cycle, b_last_motion_time, has_alerter, alerts, b_hist,
                   envVars, ringVars, dbVars, storeProcVars, pollHist,
                   cycleHist>>

\* blink_polling_loop has been started, with or without an alerter;
\* polling_loop has not.
BlinkInit ==
    /\ InitData
    /\ telegram = TelegramAlerter(StartTime)
    /\ GalleryLoaded(OneFace)
    /\ pc = "off"
    /\ b_pc = "refresh"
    /\ has_alerter \in BOOLEAN
    /\ up_newest = 0
    /\ up_kind = "absent"

LoopInit == Init \/ BlinkInit

LoopNext ==
    \/ Next
    \/ WriteEventRaises
    \/ BlinkRefresh
    \/ BlinkRefreshRaises
    \/ BlinkSnapshot
    \/ BlinkDetect
    \/ BlinkDetectRaises
    \/ BlinkIdentify
    \/ BlinkIdentifyRaises
    \/ BlinkWrite
    \/ BlinkWriteRaises
    \/ BlinkAlert
    \/ BlinkAlertRaises
    \/ BlinkSleep

LoopSpec == LoopInit /\ [][LoopNext]_vars

\* -------------------------------------------------------------- ShutdownSpec
\* The steps of LoopSpec with the cancellation of the coordinator's task at
\* any moment; a run is followed until the coordinator has stopped.  The
\* clock stands still: the time plays no part in cancellation, and at the
\* start time cycles inside and outside the unlock cooldown both occur.

Running == pc # "stopped" /\ b_pc # "stopped"

ShutdownNext ==
    /\ Running
    /\ \/ \E kind \in PipelineKinds : Arrive(kind)
       \/ WaitForEvent
       \/ WaitForEventRaises
       \/ CaptureFrame
       \/ Detect
       \/ DetectRaises
       \/ Identify
       \/ IdentifyRaises
       \/ Unlock
       \/ WriteEvent
       \/ WriteEventRaises
       \/ ErrorSleep
       \/ BlinkRefresh
       \/ BlinkRefreshRaises
       \/ BlinkSnapshot
       \/ BlinkDetect
       \/ BlinkDetectRaises
       \/ BlinkIdentify
       \/ BlinkIdentifyRaises
       \/ BlinkWrite
       \/ BlinkWriteRaises
       \/ BlinkAlert
       \/ BlinkAlertRaises
       \/ BlinkSleep
       \/ Cancel
       \/ BlinkCancel

ShutdownSpec == LoopInit /\ [][ShutdownNext]_vars

\* -------------------------------------------------------------- DetectorSpec
\* The callers of ObjectDetector.detect and the executor's worker.

\* No coordinator loop runs; the services are constructed, with the gallery
\* loaded from dir.
ServicesInit(dir) ==
    /\ InitData
    /\ telegram = TelegramAlerter(StartTime)
    /\ GalleryLoaded(dir)
    /\ pc = "off"
    /\ b_pc = "off"
    /\ has_alerter = FALSE
    /\ up_newest = 0
    /\ up_kind = "absent"

\* The callers whose _predict_sync is executing.
RunningPredict == { c \in DetectCallers : d_pc[c] = "running" }

\* A pool that starts a thread for every submitted call.
WorkerAvailable_PerCall(running) == TRUE

\* The executor hands a queued call to a worker only while fewer than
\* max_workers are busy.
WorkerAvailable(running) == Cardinality(running) < max_workers

\* "await loop.run_in_executor(self._executor, self._predict_sync, frame)":
\* the call is put on the executor's work queue and the caller suspends.
DetectCall(c) ==
    /\ d_pc[c] \in {"idle", "returned", "raised"}
    /\ d_count[c] < MaxDetectCalls
    /\ d_pc' = [d_pc EXCEPT ![c] = "queued"]
    /\ d_queue' = Append(d_queue, c)
    /\ d_count' = [d_count EXCEPT ![c] = @ + 1]
    /\ d_submitted' = Append(d_submitted, c)
    /\ UNCHANGED <<d_started, galleryVars, toolVars, cancel_sent, blinkVars, envVars,
                   ringVars, dbVars, storeProcVars, pollHist, cycleHist>>

\* A free worker takes the oldest queued call and enters _predict_sync.
PredictStart ==
    /\ d_queue # <<>>
    /\ WorkerAvailable(RunningPredict)
    /\ d_pc' = [d_pc EXCEPT ![Head(d_queue)] = "running"]
    /\ d_queue' = Tail(d_queue)
    /\ d_started' = Append(d_started, Head(d_queue))
    /\ UNCHANGED <<d_count, d_submitted, galleryVars, toolVars, cancel_sent, blinkVars,
                   envVars, ringVars, dbVars, storeProcVars, pollHist,
                   cycleHist>>

\* _predict_sync returns its list (empty for undecodable bytes) or
\* model.predict raises; the worker is free and the caller resumes.
PredictEnd(c) ==
    /\ d_pc[c] = "running"
    /\ \E outcome \in {"returned", "raised"} :
         d_pc' = [d_pc EXCEPT ![c] = outcome]
    /\ UNCHANGED <<d_queue, d_count, d_submitted, d_started, galleryVars, toolVars,
                   cancel_sent, blinkVars, envVars, ringVars, dbVars,
                   storeProcVars, pollHist, cycleHist>>

DetectorInit == ServicesInit(OneFace)

DetectorNext ==
    \/ \E c \in DetectCallers : DetectCall(c)
    \/ PredictStart
    \/ \E c \in DetectCallers : PredictEnd(c)

DetectorSpec == DetectorInit /\ [][DetectorNext]_vars

\* --------------------------------------------------------------- GallerySpec
\* FaceRecognizer with identify() in one thread of the default executor and
\* reload() / enroll() in another, one action per access to known_encodings
\* and known_names; identify is given frames of at most one face.

\* What identify may return if the reload it overlaps is atomic: its result
\* on the gallery before the reload or on the gallery after it.
AcceptNow(faces) ==
    IF reload_t.pc = "idle"
    THEN { identify(known_names, faces) }
    ELSE { identify(reload_t.before, faces),
           identify(Listing(known_faces_dir), faces) }

IdentifyRunning == identify_t.pc \in {"distances", "name"}

\* The reload thread as reload() begins, after the deletion of the names del.
StartReload(rt, del) ==
    [rt EXCEPT !.pc = "clear_encodings", !.before = known_names,
               !.deleting = del]

\* The reload thread as _load_known_faces ends.
EndReload(rt) ==
    [rt EXCEPT !.pc = "idle", !.listing = <<>>, !.k = 0, !.before = <<>>,
               !.gone = @ \cup rt.deleting, !.deleting = {}]

\* The history of a running identify call when a reload begins on dir.
Overlapped(it, dir) ==
    IF IdentifyRunning
    THEN [it EXCEPT !.accept = @ \cup {identify(Listing(dir), it.faces)},
                    !.clean = FALSE]
    ELSE it

\* reload() is called (POST /faces/reload).
ReloadCall ==
    /\ reload_t.pc = "idle"
    /\ reload_t' = StartReload(reload_t, {})
    /\ identify_t' = Overlapped(identify_t, known_faces_dir)
    /\ UNCHANGED <<known_encodings, known_names, known_faces_dir,
                   galleryRest>>

\* enroll(name, image) on an image with exactly one detectable face: the
\* file name_<k> is saved, then self.reload() begins.
EnrollCall(name, n_faces) ==
    /\ reload_t.pc = "idle"
    /\ EnrollValid(n_faces)
    /\ known_faces_dir["alice"] + known_faces_dir["bob"] < MaxFaces
    /\ known_faces_dir' = [known_faces_dir EXCEPT ![name] = @ + 1]
    /\ reload_t' = [StartReload(reload_t, {}) EXCEPT !.gone = @ \ {name}]
    /\ identify_t' =
         [Overlapped(identify_t, known_faces_dir') EXCEPT
            !.forbidden = @ \ {name}]
    /\ UNCHANGED <<known_encodings, known_names, galleryRest>>

\* enroll(name, image) on an image with no face or with several: ValueError
\* is raised before anything is written.
EnrollRejected(name, n_faces) ==
    /\ reload_t.pc = "idle"
    /\ ~EnrollValid(n_faces)
    /\ reload_t' =
         [reload_t EXCEPT
            !.last_enroll = [ name |-> name, n_faces |-> n_faces,
                              outcome |-> "ValueError" ]]
    /\ UNCHANGED <<known_faces_dir, identify_t, known_encodings, known_names,
                   galleryRest>>

\* DELETE /api/people/{name}: the person's face images are removed, then
\* recognizer.reload() begins.
DeleteCall(name) ==
    /\ reload_t.pc = "idle"
    /\ known_faces_dir[name] > 0
    /\ known_faces_dir' = [known_faces_dir EXCEPT ![name] = 0]
    /\ reload_t' = StartReload(reload_t, {name})
    /\ identify_t' = Overlapped(identify_t, known_faces_dir')
    /\ UNCHANGED <<known_encodings, known_names, galleryRest>>

\* self.known_encodings.clear()
ClearEncodings ==
    /\ reload_t.pc = "clear_encodings"
    /\ known_encodings' = Cleared(known_encodings)
    /\ reload_t' = [reload_t EXCEPT !.pc = "clear_names"]
    /\ UNCHANGED <<known_names, known_faces_dir, identify_t, galleryRest>>

\* self.known_names.clear(), then _load_known_faces lists the directory.
ClearNames ==
    /\ reload_t.pc = "clear_names"
    /\ known_names' = Cleared(known_names)
    /\ reload_t' =
         IF Listing(known_faces_dir) = <<>>
         THEN EndReload(reload_t)
         ELSE [reload_t EXCEPT !.pc = "load_encoding",
                               !.listing = Listing(known_faces_dir),
                               !.k = 1]
    /\ UNCHANGED <<known_encodings, known_faces_dir, identify_t, galleryRest>>

\* self.known_encodings.append(encodings[0])
LoadEncoding ==
    /\ reload_t.pc = "load_encoding"
    /\ known_encodings' =
         Append(known_encodings, FaceOf[reload_t.listing[reload_t.k]])
    /\ reload_t' = [reload_t EXCEPT !.pc = "load_name"]
    /\ UNCHANGED <<known_names, known_faces_dir, identify_t, galleryRest>>

\* self.known_names.append(name), then the next file or the end of the load.
LoadName ==
    /\ reload_t.pc = "load_name"
    /\ known_names' = Append(known_names, reload_t.listing[reload_t.k])
    /\ reload_t' =
         IF reload_t.k = Len(reload_t.listing)
         THEN EndReload(reload_t)
         ELSE [reload_t EXCEPT !.pc = "load_encoding", !.k = @ + 1]
    /\ UNCHANGED <<known_encodings, known_faces_dir, identify_t, galleryRest>>

\* identify(image_bytes) is called: the frame is decoded and its faces are
\* located and encoded; without a face it returns None.
IdentifyCall(faces) ==
    /\ identify_t.pc \in {"idle", "done"}
    /\ identify_t' =
         [ pc |-> NextFace(faces, 0),
           faces |-> faces,
           f |-> IF faces = <<>> THEN 0 ELSE 1,
           distances |-> <<>>, result |-> None,
           accept |-> AcceptNow(faces),
           clean |-> (reload_t.pc = "idle"),
           forbidden |-> reload_t.gone,
           closest |-> 0 ]
    /\ UNCHANGED <<known_encodings, known_names, known_faces_dir, reload_t,
                   galleryRest>>

\* distances = face_distance(self.known_encodings, encoding) and the check
\* of its length.
IdentifyDistances ==
    /\ identify_t.pc = "distances"
    /\ LET d == face_distance(known_encodings,
                              identify_t.faces[identify_t.f]) IN
         identify_t' =
           IF AfterDistances(d) = "continue"
           THEN [identify_t EXCEPT
                   !.distances = d,
                   !.pc = NextFace(identify_t.faces, identify_t.f),
                   !.f = IF @ < Len(identify_t.faces) THEN @ + 1 ELSE @]
           ELSE [identify_t EXCEPT !.distances = d,
                                   !.closest =
                                       IF Len(d) = 0 THEN 0
                                       ELSE known_encodings[argmin(d)],
                                   !.pc = AfterDistances(d)]
    /\ UNCHANGED <<known_encodings, known_names, known_faces_dir, reload_t,
                   galleryRest>>

\* closest_name = self.known_names[best_idx] and the tolerance test: the
\* name is returned, or the loop goes on to the next face.
IdentifyName ==
    /\ identify_t.pc = "name"
    /\ LET r == MatchName(identify_t.distances, known_names) IN
         identify_t' =
           IF r = None
           THEN [identify_t EXCEPT
                   !.pc = NextFace(identify_t.faces, identify_t.f),
                   !.f = IF @ < Len(identify_t.faces) THEN @ + 1 ELSE @]
           ELSE [identify_t EXCEPT !.result = r, !.pc = "done"]
    /\ UNCHANGED <<known_encodings, known_names, known_faces_dir, reload_t,
                   galleryRest>>

\* The directories the recognizer may be constructed on.
InitialDirs ==
    { dir \in [GalleryNames -> 0..MaxFaces] :
        dir["alice"] + dir["bob"] < MaxFaces }

GalleryInit == \E dir \in InitialDirs : ServicesInit(dir)

GalleryNext ==
    \/ ReloadCall
    \/ \E name \in GalleryNames : \E n_faces \in ImageFaces :
          EnrollCall(name, n_faces)
    \/ ClearEncodings
    \/ ClearNames
    \/ LoadEncoding
    \/ LoadName
    \/ \E faces \in Frames : Len(faces) <= 1 /\ IdentifyCall(faces)
    \/ IdentifyDistances
    \/ IdentifyName

GallerySpec == GalleryInit /\ [][GalleryNext]_vars

\* -------------------------------------------------------------- IdentifySpec
\* identify alone, on any frame, against any gallery loaded at construction.
LoadedDirs ==
    { dir \in [GalleryNames -> 0..MaxFaces] :
        dir["alice"] + dir["bob"] <= MaxFaces }

IdentifyInit == \E dir \in LoadedDirs : ServicesInit(dir)

IdentifyNext ==
    \/ \E faces \in Frames : IdentifyCall(faces)
    \/ IdentifyDistances
    \/ IdentifyName

IdentifySpec == IdentifyInit /\ [][IdentifyNext]_vars

\* ---------------------------------------------------------------- EnrollSpec
\* The people endpoints alone: enroll on any image, deletion and reload,
\* with no identify call running.
EnrollNext ==
    \/ ReloadCall
    \/ \E name \in GalleryNames : \E n_faces \in ImageFaces :
          \/ EnrollCall(name, n_faces)
          \/ EnrollRejected(name, n_faces)
    \/ \E name \in GalleryNames : DeleteCall(name)
    \/ ClearEncodings
    \/ ClearNames
    \/ LoadEncoding
    \/ LoadName

EnrollSpec == GalleryInit /\ [][EnrollNext]_vars

\* ---------------------------------------------------------------- DeleteSpec
\* Deletion of a person against identify: the people endpoints with valid
\* images, and identify on frames of at most one face.
DeleteNext ==
    \/ ReloadCall
    \/ \E name \in GalleryNames : \E n_faces \in ImageFaces :
          EnrollCall(name, n_faces)
    \/ \E name \in GalleryNames : DeleteCall(name)
    \/ ClearEncodings
    \/ ClearNames
    \/ LoadEncoding
    \/ LoadName
    \/ \E faces \in Frames : Len(faces) <= 1 /\ IdentifyCall(faces)
    \/ IdentifyDistances
    \/ IdentifyName

DeleteSpec == GalleryInit /\ [][DeleteNext]_vars


\* --------------------------------------------------------------- CaptureSpec
\* RingClient.capture_frame, one action per await.

\* capture_frame(recording_id) is called and reaches its first download.
CaptureCall(recording_id) ==
    /\ capture.pc \in {"idle", "done"}
    /\ capture' = [ pc |-> "download", recording_id |-> recording_id,
                    attempt |-> 1, failed |-> 0, result |-> "pending" ]
    /\ UNCHANGED <<crop, telegram, commands, dashboard, toolRest>>

\* await self.doorbell.async_recording_download(recording_id) and what
\* follows it up to the return or the sleep.
DownloadAttempt(outcome) ==
    /\ capture.pc = "download"
    /\ capture' =
         [capture EXCEPT
            !.pc = AfterDownload(outcome).to,
            !.result = AfterDownload(outcome).result,
            !.failed = IF outcome \in GotData THEN @ ELSE @ + 1]
    /\ UNCHANGED <<crop, telegram, commands, dashboard, toolRest>>

\* await asyncio.sleep(5), then the next attempt or, the attempts used up,
\* return None.
CaptureSleep ==
    /\ capture.pc = "sleep"
    /\ capture' =
         IF MoreAttempts(capture.attempt)
         THEN [capture EXCEPT !.pc = "download", !.attempt = @ + 1]
         ELSE [capture EXCEPT !.pc = "done", !.result = None]
    /\ UNCHANGED <<crop, telegram, commands, dashboard, toolRest>>

\* The services are constructed and no coordinator loop runs.
ToolsInit == ServicesInit(OneFace)

CaptureNext ==
    \/ \E recording_id \in 1..MaxOccurrences : CaptureCall(recording_id)
    \/ \E outcome \in DownloadOutcomes : DownloadAttempt(outcome)
    \/ CaptureSleep

CaptureSpec == ToolsInit /\ [][CaptureNext]_vars

\* ------------------------------------------------------------------ CropSpec
\* crop_person_bbox on any frame and any bounding box.

\* crop_person_bbox(frame_bytes, detection) is called and returns.
CropCall(decodable, bbox) ==
    /\ crop.pc = "idle"
    /\ crop' = [ pc |-> "done", decodable |-> decodable, bbox |-> bbox,
                 result |-> crop_person_bbox(decodable, bbox) ]
    /\ UNCHANGED <<capture, telegram, commands, dashboard, toolRest>>

CropNext ==
    /\ crop.pc = "idle"
    /\ \E decodable \in BOOLEAN :
       \E x1 \in BoxCoords : \E y1 \in BoxCoords :
       \E x2 \in BoxCoords : \E y2 \in BoxCoords :
          CropCall(decodable, <<x1, y1, x2, y2>>)

CropSpec == ToolsInit /\ [][CropNext]_vars

\* --------------------------------------------------------------- AlerterSpec
\* TelegramAlerter with the alert_* calls of two coroutines, mute and unmute,
\* and the monotonic clock; one action per await.

\* time.monotonic() advances.
AlertTick ==
    /\ telegram.clock < telegram.created + MaxTicks * TickSeconds
    /\ telegram' = [telegram EXCEPT !.clock = @ + TickSeconds]
    /\ UNCHANGED <<capture, crop, commands, dashboard, toolRest>>

\* alert_<cat>(thumbnail_path, caption) is called: the mute check and the
\* locked section (no await inside) up to the first send of _send_photo.
AlertCall(caller, cat) ==
    /\ telegram.calls[caller].pc = "idle"
    /\ LET v == AlertVerdict(telegram, cat)
           seen == [ cat |-> cat, at |-> telegram.clock,
                     muted |-> is_muted(telegram),
                     before |-> telegram.passed_at[cat], verdict |-> v ]
       IN telegram' =
            IF v = "passed"
            THEN [telegram EXCEPT
                    !.last[cat] = telegram.clock,
                    !.passed_at[cat] = telegram.clock,
                    !.last_call = seen,
                    !.calls[caller] =
                        [ pc |-> "send", cat |-> cat, attempt |-> 1 ]]
            ELSE [telegram EXCEPT !.last_call = seen]
    /\ UNCHANGED <<capture, crop, commands, dashboard, toolRest>>

\* await self._bot.send_photo(...) / send_message(...) ends.
SendAttempt(caller, outcome) ==
    /\ telegram.calls[caller].pc = "send"
    /\ telegram' =
         [telegram EXCEPT
            !.calls[caller] =
               IF AfterSend(outcome) = "sleep"
               THEN [@ EXCEPT !.pc = "sleep"]
               ELSE NoAlertCall,
            !.last[telegram.calls[caller].cat] =
               TimestampAfterSend(@, outcome)]
    /\ UNCHANGED <<capture, crop, commands, dashboard, toolRest>>

\* await asyncio.sleep(wait) ends: the next attempt, or the loop is over
\* and _send_photo returns.
RetrySleep(caller) ==
    /\ telegram.calls[caller].pc = "sleep"
    /\ telegram' =
         [telegram EXCEPT !.calls[caller] =
            IF MoreSendAttempts(@.attempt)
            THEN [@ EXCEPT !.pc = "send", !.attempt = @ + 1]
            ELSE NoAlertCall]
    /\ UNCHANGED <<capture, crop, commands, dashboard, toolRest>>

\* mute(minutes)
Mute(minutes) ==
    /\ telegram' =
         [telegram EXCEPT !.muted_until = telegram.clock + minutes * 60]
    /\ UNCHANGED <<capture, crop, commands, dashboard, toolRest>>

\* unmute()
Unmute ==
    /\ telegram' = [telegram EXCEPT !.muted_until = 0]
    /\ UNCHANGED <<capture, crop, commands, dashboard, toolRest>>

\* The services are constructed, the alerter at any reading of the
\* monotonic clock; no coordinator loop runs.
AlerterInit ==
    /\ InitData
    /\ GalleryLoaded(OneFace)
    /\ telegram \in { TelegramAlerter(t0) : t0 \in MonotonicStarts }
    /\ pc = "off"
    /\ b_pc = "off"
    /\ has_alerter = FALSE
    /\ up_newest = 0
    /\ up_kind = "absent"

AlerterNext ==
    \/ AlertTick
    \/ \E caller \in AlertCallers : \E cat \in AlertCategories :
          AlertCall(caller, cat)
    \/ \E caller \in AlertCallers : \E outcome \in SendOutcomes :
          SendAttempt(caller, outcome)
    \/ \E caller \in AlertCallers : RetrySleep(caller)
    \/ Mute(1)
    \/ Unmute

AlerterSpec == AlerterInit /\ [][AlerterNext]_vars

\* --------------------------------------------------------------- CommandSpec
\* TelegramCommandHandler.run: get_updates, then one action per update of
\* the batch, handled to its end before the next (run awaits
\* _handle_update), then the sleep.

\* A message is sent to the bot: Telegram gives it the next update_id.
UpdateArrives ==
    /\ commands.updates < MaxUpdates
    /\ commands' = [commands EXCEPT !.updates = @ + 1]
    /\ UNCHANGED <<capture, crop, telegram, dashboard, toolRest>>

\* updates = await self._bot.get_updates(offset=self._offset, timeout=10)
\* returns; with no update the for loop is over at once.
GetUpdates ==
    /\ commands.pc = "poll"
    /\ LET updates == get_updates(commands.offset, commands.updates) IN
        commands' = [commands EXCEPT
                        !.batch = updates,
                        !.pc = IF updates = <<>> THEN "sleep" ELSE "handle"]
    /\ UNCHANGED <<capture, crop, telegram, dashboard, toolRest>>

\* get_updates raises TelegramError (or anything else): logged, then the
\* sleep.
GetUpdatesRaises ==
    /\ commands.pc = "poll"
    /\ commands' = [commands EXCEPT !.pc = "sleep"]
    /\ UNCHANGED <<capture, crop, telegram, dashboard, toolRest>>

\* self._offset = update.update_id + 1; await self._handle_update(update)
\* for the next update of the batch.  A handler that runs sends at least one
\* reply to the chat of the message; /unlock and /lock call the lock, /mute
\* the alerter.  An exception that leaves _handle_update ends the for loop
\* in run's handler: the rest of the batch is dropped.
HandleUpdate(message, outcome) ==
    /\ commands.pc = "handle"
    /\ LET to == Route(message, commands.chat_id)
           ran == IF to \in Handlers THEN to ELSE None
           update_id == Head(commands.batch)
       IN /\ outcome \in HandleOutcomes(to)
          /\ commands' =
               [commands EXCEPT
                  !.offset = OffsetAfter(@, update_id, outcome),
                  !.handled = Append(@, update_id),
                  !.batch = IF outcome = "raises" THEN <<>> ELSE Tail(@),
                  !.pc = IF outcome = "raises" \/ Tail(commands.batch) = <<>>
                         THEN "sleep" ELSE "handle",
                  !.unlocks = IF to = "/unlock" THEN @ + 1 ELSE @,
                  !.locks = IF to = "/lock" THEN @ + 1 ELSE @,
                  !.replied = IF to = "ignore" \/ outcome = "raises" THEN @
                              ELSE @ \cup {message.chat_id},
                  !.last = [ message |-> message, handler |-> ran,
                             outcome |-> outcome ]]
          /\ telegram' =
               IF to = "/mute"
               THEN IF message.text.args = "off"
                    THEN [telegram EXCEPT !.muted_until = 0]
                    ELSE [telegram EXCEPT !.muted_until =
                            telegram.clock + DEFAULT_MUTE_MINUTES * 60]
               ELSE telegram
    /\ UNCHANGED <<capture, crop, dashboard, toolRest>>

\* await asyncio.sleep(POLL_INTERVAL), back to get_updates.
CommandSleep ==
    /\ commands.pc = "sleep"
    /\ commands' = [commands EXCEPT !.pc = "poll"]
    /\ UNCHANGED <<capture, crop, telegram, dashboard, toolRest>>

CommandNext ==
    \/ UpdateArrives
    \/ GetUpdates
    \/ GetUpdatesRaises
    \/ \E message \in Messages \cup {NoMessage} :
          \E outcome \in {"returns", "handler_raises", "raises"} :
             HandleUpdate(message, outcome)
    \/ CommandSleep

CommandSpec == ToolsInit /\ [][CommandNext]_vars

\* ---------------------------------------------------------------- UnlockSpec
\* Everything that calls switchbot.unlock, side by side: polling_loop, the
\* Telegram /unlock command and the dashboard's unlock endpoint, with the
\* other coordinator, blink_polling_loop, running too.  The clock stands
\* still, as in ShutdownSpec: cycles inside and outside the cooldown occur.

\* POST /api/unlock: ok = await run_in_executor(None, switchbot.unlock);
\* 200 when ok, otherwise 500 (HTTPException, or the exception of unlock).
ApiUnlock(outcome) ==
    /\ dashboard' = [ status |-> IF outcome = "true" THEN 200 ELSE 500 ]
    /\ UNCHANGED <<capture, crop, telegram, commands, toolRest>>

\* "/unlock" sent from the configured chat.
UnlockCommand ==
    [ chat_id |-> AuthorizedChat, text |-> Text(TRUE, "/unlock", "") ]

\* polling_loop, blink_polling_loop (without alerter) and the command
\* handler have been started, the dashboard is up; one message is waiting
\* for the bot.
UnlockInit ==
    /\ InitState
    /\ commands = [CommandsIdle EXCEPT !.updates = 1]
    /\ telegram = TelegramAlerter(StartTime)
    /\ GalleryLoaded(OneFace)
    /\ pc = "poll"
    /\ b_pc = "refresh"
    /\ has_alerter = FALSE
    /\ up_newest = 1
    /\ up_kind \in PipelineKinds

UnlockNext ==
    \/ \E kind \in PipelineKinds : Arrive(kind)
    \/ WaitForEvent
    \/ CaptureFrame
    \/ Detect
    \/ Identify
    \/ Unlock
    \/ WriteEvent
    \/ BlinkRefresh
    \/ BlinkSnapshot
    \/ BlinkDetect
    \/ BlinkIdentify
    \/ BlinkWrite
    \/ BlinkSleep
    \/ GetUpdates
    \/ HandleUpdate(UnlockCommand, "returns")
    \/ CommandSleep
    \/ \E outcome \in UnlockOutcomes : ApiUnlock(outcome)

UnlockSpec == UnlockInit /\ [][UnlockNext]_vars

\* ===================================================================== claims

\* The event rows written for the occurrence rid.
RowsOf(rid) ==
    { i \in DOMAIN db_events : db_events[i].recording_id = ToStr(rid) }

\* The calls of switchbot.unlock made in the cycle of the occurrence rid.
UnlocksOf(rid) ==
    { u \in DOMAIN unlock_log : unlock_log[u].recording_id = rid }

\* The cycle of the occurrence rid has not ended yet.
InFlight(rid) == cycle.recording_id = rid

C4_GrantedImpliesUnlockedAndNamed ==
    \A i \in DOMAIN db_events :
        db_events[i].unlock_granted =>
            /\ db_events[i].door_action = "unlocked"
            /\ db_events[i].person_name # None

\* The store holds a committed granted event of polling_loop and a committed
\* event of blink_polling_loop.
C4_Witness ==
    \E i, j \in DOMAIN db_events :
        /\ db_events[i].camera_id = CAMERA_ID
        /\ db_events[i].unlock_granted
        /\ db_events[i].committed
        /\ db_events[j].camera_id = BLINK_CAMERA_ID
        /\ db_events[j].committed

\* The committed detection rows of the event event_id.
CommittedDetectionsOf(event_id) ==
    { d \in DOMAIN db_detections :
        db_detections[d].event_id = event_id /\ db_detections[d].committed }

\* C5 (StoreSpec): a write_event call with K detection dicts that returned
\* has one event row and K detection rows with its id; one that raised has
\* left no committed event row and no committed detection row, also after
\* later calls committed on the connection.
C5_WriteEventAllOrNothing ==
    \A k \in DOMAIN calls :
        LET c == calls[k]
            rows == { i \in DOMAIN db_events :
                        c.event_id # 0 /\ db_events[i].id = c.event_id }
        IN /\ c.status = "returned" =>
                /\ Cardinality(rows) = 1
                /\ Cardinality(CommittedDetectionsOf(c.event_id))
                     = Len(c.args.detections)
           /\ c.status = "raised" =>
                /\ \A i \in rows : ~db_events[i].committed
                /\ c.event_id # 0 => CommittedDetectionsOf(c.event_id) = {}

\* C6 (StoreSpec): under every interleaving of the coordinators' statements,
\* an event of a call that has not raised is never committed with fewer
\* detection rows than the call was given, and get_event never returns it
\* with fewer.
C6_NoPartialEventVisible ==
    \A k \in DOMAIN calls :
        LET c == calls[k] IN
        (c.status # "raised" /\ c.event_id # 0) =>
            /\ db_events[c.event_id].committed =>
                 Cardinality(CommittedDetectionsOf(c.event_id))
                   = Len(c.args.detections)
            /\ (r_pc = "returned" /\ reads.event_id = c.event_id) =>
                 Len(reads.detections) = Len(c.args.detections)

\* C7 (Spec): every occurrence whose frame was fetched and whose cycle has
\* ended, also by an exception, is stored in exactly one event row.
C7_FetchedStoredExactlyOnce ==
    \A rid \in fetched :
        InFlight(rid) \/ Cardinality(RowsOf(rid)) = 1

\* C8 (Spec): no occurrence reported after the baseline is passed over:
\* every id between the baseline and the id the client has seen last has
\* been yielded by wait_for_event.
C8_NoOccurrenceSkipped ==
    baseline # 0 =>
        \A id \in (baseline + 1)..last_event_id[2] :
            \E y \in DOMAIN yielded : yielded[y] = id

\* C9 (RingSpec): the first wait_for_event call returns None; the second
\* returns an occurrence iff the newest upstream id it sees differs from
\* what the first call saw.
C9_FirstPollBaselineSecondIffChanged ==
    /\ Len(poll_log) >= 1 => poll_log[1].ret = NoId
    /\ Len(poll_log) >= 2 =>
         (poll_log[2].ret # NoId <=> poll_log[2].seen # poll_log[1].seen)

\* C10 (RingSpec): once the baseline is set, a wait_for_event call that sees
\* a newest id other than _last_event_id returns that id with its kind
\* ("motion" when the entry has none) and sets _last_event_id to it, a call
\* that sees the same id returns None and leaves it, and no id is yielded
\* twice.
C10_ChangedIdYieldedOnce ==
    /\ (last_poll.before # NoId /\ last_poll.seen # 0) =>
         IF ToStr(last_poll.seen) # last_poll.before
         THEN /\ last_poll.ret =
                   << last_poll.seen,
                      IF last_poll.kind = "absent" THEN "motion"
                      ELSE last_poll.kind >>
              /\ last_poll.after = ToStr(last_poll.seen)
              /\ last_event_id = ToStr(last_poll.seen)
         ELSE /\ last_poll.ret = NoId
              /\ last_poll.after = last_poll.before
    /\ \A x, y \in DOMAIN yielded : x # y => yielded[x] # yielded[y]

\* After the baseline two changed ids have been yielded and a later call
\* that saw the same id again returned None.
C10_Witness ==
    /\ Len(yielded) = 2
    /\ last_poll.before # NoId
    /\ ToStr(last_poll.seen) = last_poll.before
    /\ last_poll.ret = NoId

\* The steps of a polling_loop cycle that follow a fetched frame.
PostCapture == {"detect", "identify", "unlock", "write"}

\* The steps of a blink_polling_loop cycle that follow a fetched snapshot.
BlinkPostSnapshot == {"detect", "identify", "write"}

C12_FrameAlwaysReachesWrite ==
    [][ /\ (pc \in PostCapture /\ pc' \notin PostCapture) => pc = "write"
        /\ (b_pc \in BlinkPostSnapshot /\ b_pc' \notin BlinkPostSnapshot)
              => b_pc = "write" ]_vars

\* C13 (LoopSpec): an occurrence whose capture_frame / get_snapshot returned
\* None has no event row, no thumbnail, no identify call and no unlock call,
\* and its cycle is over.
C13_NoFrameNoTrace ==
    /\ \A rid \in unfetched :
         /\ RowsOf(rid) = {}
         /\ rid \notin thumbs
         /\ rid \notin identified
         /\ UnlocksOf(rid) = {}
         /\ ~InFlight(rid)
         /\ rid \notin fetched
    /\ \A n \in b_hist.unfetched :
         /\ \A r \in b_hist.rows : r[1] # n
         /\ n \notin b_hist.thumbs
         /\ n \notin b_hist.identified
         /\ n \notin b_hist.fetched
         /\ \A a \in DOMAIN alerts : alerts[a].n # n
         /\ b_cycle.n # n

\* An occurrence was abandoned for want of a frame, and the loop has gone on
\* to store a later occurrence.
C13_Witness ==
    \E rid \in unfetched :
        \E later \in fetched : later > rid /\ RowsOf(later) # {}

\* C14 (ShutdownSpec): the loops stop only when their task has been
\* cancelled, and from the delay that follows a caught exception they go
\* back to polling.
C14_StopsOnlyOnCancel ==
    [][ /\ pc' = "stopped" => cancel_sent'[CAMERA_ID]
        /\ b_pc' = "stopped" => cancel_sent'[BLINK_CAMERA_ID]
        /\ (pc = "error_sleep" /\ pc' \notin {"error_sleep", "stopped"})
              => pc' = "poll"
        /\ (b_pc = "error_sleep" /\ b_pc' \notin {"error_sleep", "stopped"})
              => b_pc' = "refresh" ]_vars

\* A cycle was ended by an exception (its frame was fetched, it is over and
\* left no row) and the loop, still running, has stored a later occurrence.
C14_Witness ==
    /\ pc \notin {"stopped", "off"}
    /\ \E rid \in fetched :
         /\ RowsOf(rid) = {}
         /\ ~InFlight(rid)
         /\ \E later \in fetched : later > rid /\ RowsOf(later) # {}

\* C15 (ShutdownSpec): a coordinator that has stopped has no cycle left
\* unfinished: cancellation takes effect between cycles only.
C15_CancelBetweenCyclesOnly ==
    /\ pc = "stopped" => cycle = IdleCycle
    /\ b_pc = "stopped" => b_cycle = IdleBlinkCycle

\* C16 (DetectorSpec): at most one _predict_sync executes at any time; a
\* call submitted meanwhile waits in the executor's queue, and the calls
\* start in the order they were submitted.
C16_OnePredictAtATime ==
    /\ Cardinality(RunningPredict) <= 1
    /\ \A c \in DetectCallers :
         d_pc[c] = "queued" <=>
            Cardinality({ k \in DOMAIN d_queue : d_queue[k] = c }) = 1
    /\ Len(d_started) <= Len(d_submitted)
    /\ d_started = SubSeq(d_submitted, 1, Len(d_started))

\* One call is executing while the two other callers wait in the queue.
C16_Witness ==
    /\ Cardinality(RunningPredict) = 1
    /\ Len(d_queue) = 2

\* C17 (GallerySpec): every identify call returns what it would return on
\* the complete gallery before or after the reload / enroll it overlaps.
C17_ReloadAtomicForIdentify ==
    identify_t.pc = "done" => identify_t.result \in identify_t.accept

\* C18 (GallerySpec): an identify call that finds no enrolled embedding
\* returns None, and a cycle with that result dispatches no unlock, whatever
\* the time and the last unlock.
C18_EmptyGalleryNeverMatches ==
    (identify_t.pc \in {"name", "done"} /\ identify_t.faces # <<>>
        /\ identify_t.distances = <<>>)
    => /\ identify_t.pc = "done"
       /\ identify_t.result = None
       /\ \A t \in 0..MaxTime : \A last \in 0..MaxTime :
             ~Dispatches(identify_t.result, t, last)

\* With no image in known_faces_dir and no reload running, identify was
\* given a face and has returned None.
C18_Witness ==
    /\ known_faces_dir["alice"] + known_faces_dir["bob"] = 0
    /\ reload_t.pc = "idle"
    /\ identify_t.pc = "done"
    /\ identify_t.faces = <<12>>
    /\ identify_t.distances = <<>>
    /\ identify_t.result = None

C20_AnyTwoUnlocksSpaced ==
    \A u, v \in DOMAIN unlock_log :
        u < v => unlock_log[v].at - unlock_log[u].at >= UNLOCK_COOLDOWN

\* C20 (Spec), amended: an invocation of switchbot.unlock that returned true
\* is followed by no other invocation for UNLOCK_COOLDOWN seconds.
C20_UnlocksAfterSuccessSpaced ==
    \A u, v \in DOMAIN unlock_log :
        (u < v /\ unlock_log[u].outcome = "true")
        => unlock_log[v].at - unlock_log[u].at >= UNLOCK_COOLDOWN

\* An unlock that returned true has been followed by a second invocation.
C20_Witness ==
    \E u, v \in DOMAIN unlock_log :
        u < v /\ unlock_log[u].outcome = "true"

\* C21 (IdentifySpec): an identify call that ran with no reload beside it
\* returns a name only if, for some face located in the frame, that name's
\* enrolled embedding is at the smallest distance of all enrolled embeddings
\* and that distance is at most the tolerance (an equal distance matches);
\* it returns None exactly when every face is farther than the tolerance
\* from every embedding, and always when no face was located.
C21_IdentifyClosestWithinTolerance ==
    [][ ( /\ identify_t'.pc = "done"
          /\ \/ IdentifyDistances
             \/ IdentifyName
             \/ \E faces \in Frames : IdentifyCall(faces) )
        => LET r == identify_t'.result
               fs == identify_t'.faces
               Dist(k, f) == Abs(known_encodings[k] - fs[f])
               Closest(k, f) ==
                   /\ Dist(k, f) <= tolerance
                   /\ \A j \in 1..Len(known_encodings) :
                         Dist(k, f) <= Dist(j, f)
           IN  /\ fs = <<>> => r = None
               /\ identify_t'.clean =>
                    /\ r # None =>
                         \E f \in 1..Len(fs) : \E k \in 1..Len(known_names) :
                            known_names[k] = r /\ Closest(k, f)
                    /\ r = None <=>
                         \A f \in 1..Len(fs) :
                            \A k \in 1..Len(known_encodings) :
                               Dist(k, f) > tolerance
      ]_vars

\* With alice and bob enrolled, identify ran alone on a frame whose first
\* face is beyond the tolerance of both and whose second face is at exactly
\* the tolerance, and returned alice.
C21_Witness ==
    /\ identify_t.pc = "done"
    /\ identify_t.clean
    /\ identify_t.faces = <<26, 15>>
    /\ known_names = <<"alice", "bob">>
    /\ identify_t.result = "alice"

\* C22 (EnrollSpec): enroll on an image with no face or with more than one
\* raises ValueError, writes no file into known_faces_dir and leaves
\* known_encodings and known_names as they were, with no reload begun; only
\* an image with exactly one face is saved and reloaded.
C22_EnrollRejectsUnlessOneFace ==
    [][ \A name \in GalleryNames : \A n \in ImageFaces :
          (EnrollCall(name, n) \/ EnrollRejected(name, n)) =>
             IF n = 1
             THEN /\ known_faces_dir' =
                       [known_faces_dir EXCEPT ![name] = @ + 1]
                  /\ reload_t'.pc = "clear_encodings"
                  /\ reload_t'.last_enroll = reload_t.last_enroll
             ELSE /\ reload_t'.last_enroll =
                       [ name |-> name, n_faces |-> n,
                         outcome |-> "ValueError" ]
                  /\ reload_t'.pc = "idle"
                  /\ UNCHANGED <<known_faces_dir, known_encodings,
                                 known_names>>
      ]_vars

\* enroll was called for bob on an image of two faces while alice was the
\* only person loaded: it raised, and the gallery and the directory still
\* hold alice alone.
C22_Witness ==
    /\ reload_t.last_enroll =
         [ name |-> "bob", n_faces |-> 2, outcome |-> "ValueError" ]
    /\ reload_t.pc = "idle"
    /\ known_names = <<"alice">>
    /\ known_faces_dir["bob"] = 0

C24_DetectionsReadInInsertionOrder ==
    (r_pc = "returned" /\ reads.event_id # 0) =>
       \E k \in DOMAIN calls :
          /\ calls[k].event_id = reads.event_id
          /\ LET given == calls[k].args.detections
                 got == reads.detections
             IN /\ Len(got) <= Len(given)
                /\ \A i \in 1..Len(got) :
                      /\ got[i].event_id = reads.event_id
                      /\ got[i].label = given[i].label
                      /\ got[i].confidence = given[i].confidence
                /\ calls[k].status # "raised" =>
                      Len(got) \in {0, Len(given)}

\* A read returned the two detections of an event whose rows were inserted
\* after the rows of another event.
C24_Witness ==
    /\ r_pc = "returned"
    /\ Len(reads.detections) = MaxDet
    /\ Len(db_detections) = 2 * MaxDet
    /\ db_detections[1].event_id # reads.event_id
    /\ reads.detections[1].label = "person"
    /\ reads.detections[MaxDet].label = "car"

\* The steps a capture_frame call at c can still take at most.
CaptureVariant(c) ==
    IF c.pc = "download" THEN 2 * (CAPTURE_ATTEMPTS - c.attempt) + 2
    ELSE IF c.pc = "sleep" THEN 2 * (CAPTURE_ATTEMPTS - c.attempt) + 1
    ELSE 0

\* C25 (CaptureSpec): capture_frame always terminates: every step of a call
\* lowers a variant that is bounded below by 0, the call makes at most
\* CAPTURE_ATTEMPTS (24) download attempts, it ends with a frame or with
\* None and never with an exception of the download or of the extraction,
\* and when every attempt raised or returned no data it returns None after
\* the 24th attempt.
C25_CaptureFrameTerminates ==
    [][ capture' # capture =>
          /\ capture'.attempt <= CAPTURE_ATTEMPTS
          /\ CaptureVariant(capture') >= 0
          /\ capture.pc \in {"download", "sleep"} =>
                CaptureVariant(capture') < CaptureVariant(capture)
          /\ capture'.pc = "done" =>
                /\ capture'.result \in {"frame", None}
                /\ capture'.failed = capture'.attempt =>
                      /\ capture'.result = None
                      /\ capture'.attempt = CAPTURE_ATTEMPTS
      ]_vars

\* A call has returned None after 24 attempts that all raised or returned
\* no data.
C25_Witness ==
    /\ capture.pc = "done"
    /\ capture.attempt = CAPTURE_ATTEMPTS
    /\ capture.failed = CAPTURE_ATTEMPTS
    /\ capture.result = None

\* The box of a crop_person_bbox call cut down to the frame, and its width
\* and height, in quarter pixels.
C26_Box ==
    << Max(0, crop.bbox[1]), Max(0, crop.bbox[2]),
       Min(4 * img_width, crop.bbox[3]), Min(4 * img_height, crop.bbox[4]) >>
C26_Width == C26_Box[3] - C26_Box[1]
C26_Height == C26_Box[4] - C26_Box[2]
C26_Inside == C26_Box = crop.bbox

\* C26 (CropSpec), as claimed: the crop of a box inside the frame has
\* exactly the size (x2 - x1, y2 - y1), the crop of a box that exceeds the
\* frame is no larger than the frame, and None is returned exactly when the
\* clamped box has width <= 0 or height <= 0 or the frame does not decode.
C26_CropSizeExact ==
    crop.pc = "done" =>
       /\ (crop.result # None /\ C26_Inside) =>
             /\ 4 * crop.result[1] = C26_Width
             /\ 4 * crop.result[2] = C26_Height
       /\ crop.result # None =>
             /\ crop.result[1] <= img_width
             /\ crop.result[2] <= img_height
       /\ crop.result = None <=>
             (~crop.decodable \/ C26_Width <= 0 \/ C26_Height <= 0)

\* C26 (CropSpec), as the code has it: the crop is the pixel rectangle
\* between the rounded edges of the clamped box, so its width and height
\* are whole pixels within one pixel of the clamped box's, exactly
\* (x2 - x1, y2 - y1) for a box inside the frame on whole pixels, and never
\* larger than the frame; None is returned exactly when the frame does not
\* decode, the clamped box has width <= 0 or height <= 0, or two opposite
\* edges round to the same pixel boundary.
C26_CropSizeRounded ==
    crop.pc = "done" =>
       /\ crop.result # None =>
             /\ crop.result = << PilRound(C26_Box[3]) - PilRound(C26_Box[1]),
                                 PilRound(C26_Box[4]) - PilRound(C26_Box[2]) >>
             /\ crop.result[1] \in 1..img_width
             /\ crop.result[2] \in 1..img_height
             /\ Abs(4 * crop.result[1] - C26_Width) <= 4
             /\ Abs(4 * crop.result[2] - C26_Height) <= 4
       /\ (crop.result # None /\ C26_Inside
             /\ \A i \in 1..4 : crop.bbox[i] % 4 = 0) =>
             /\ 4 * crop.result[1] = C26_Width
             /\ 4 * crop.result[2] = C26_Height
       /\ crop.result = None <=>
             \/ ~crop.decodable
             \/ C26_Width <= 0
             \/ C26_Height <= 0
             \/ PilRound(C26_Box[3]) = PilRound(C26_Box[1])
             \/ PilRound(C26_Box[4]) = PilRound(C26_Box[2])

\* A box reaching from a quarter pixel inside the frame to beyond its far
\* corner was cropped to the frame: 1.75 pixels wide and high after
\* clamping, returned as a crop of 2 x 2 pixels.
C26_Witness ==
    /\ crop.pc = "done"
    /\ crop.decodable
    /\ crop.bbox = <<1, 1, 4 * img_width + 4, 4 * img_height + 4>>
    /\ crop.result = <<img_width, img_height>>

C28_UnmutedAlertOutsideWindowIsSent ==
    LET c == telegram.last_call IN
    ( /\ c.verdict # None
      /\ ~c.muted
      /\ c.before = NoPass \/ c.at - c.before >= COALESCE_SECONDS )
    => c.verdict = "passed"

\* C29 (AlerterSpec): _send_photo makes at most two attempts; after
\* RetryAfter on the first it sleeps and tries once more, after RetryAfter
\* on the second it sleeps and returns; after the first success and after
\* the first TelegramError other than RetryAfter it returns at once, so that
\* the alert_* call ends normally in every case.
C29_SendPhotoAtMostTwoAttempts ==
    [][ \A c \in AlertCallers :
          LET call == telegram.calls[c]
              after == telegram'.calls[c]
          IN /\ after.attempt <= SEND_ATTEMPTS
             /\ after.pc \in {"idle", "send", "sleep"}
             /\ \A o \in SendOutcomes :
                   SendAttempt(c, o) =>
                      IF o = "RetryAfter"
                      THEN after = [call EXCEPT !.pc = "sleep"]
                      ELSE after = NoAlertCall
             /\ RetrySleep(c) =>
                   IF call.attempt = 1
                   THEN after = [call EXCEPT !.pc = "send", !.attempt = 2]
                   ELSE after = NoAlertCall
      ]_vars

\* Both attempts of a blink-motion alert ended in RetryAfter: the call is in
\* the sleep after the second, about to return.
C29_Witness ==
    /\ telegram.calls[BLINK_CAMERA_ID].pc = "sleep"
    /\ telegram.calls[BLINK_CAMERA_ID].attempt = SEND_ATTEMPTS
    /\ telegram.calls[BLINK_CAMERA_ID].cat = "blink_motion"

\* C30 (CommandSpec): a command handler runs only for an update whose
\* message comes from the configured chat; an update from any other chat
\* calls neither switchbot.unlock nor switchbot.lock, leaves the mute state
\* as it was and is sent no reply.
C30_OnlyConfiguredChatCommands ==
    [][ commands'.offset # commands.offset =>
          LET m == commands'.last.message IN
          /\ commands'.last.handler # None =>
                (m # NoMessage /\ m.chat_id = AuthorizedChat)
          /\ (m # NoMessage /\ m.chat_id # AuthorizedChat) =>
                /\ commands'.unlocks = commands.unlocks
                /\ commands'.locks = commands.locks
                /\ commands'.replied = commands.replied
                /\ telegram' = telegram
          /\ commands'.replied \subseteq {AuthorizedChat}
      ]_vars

\* After /unlock from the configured chat had unlocked the door once,
\* /unlock arrived from two other chats, last from the group chat: still
\* one unlock, and no reply to them.
C30_Witness ==
    /\ commands.offset = 3
    /\ commands.unlocks = 1
    /\ commands.replied = {AuthorizedChat}
    /\ commands.last.message =
         [ chat_id |-> 0 - AuthorizedChat, text |-> Text(TRUE, "/unlock", "") ]
    /\ commands.last.handler = None

\* What C31 expects identify to be called on for the detections dets when
\* the crop of the best person's box is (cropped) or is not available.
C31_Expected(arg, dets, cropped) ==
    LET persons == {i \in DOMAIN dets : dets[i].label = "person"} IN
    IF cropped
    THEN /\ arg.on = "crop"
         /\ arg.box \in persons
         /\ \A j \in persons :
                dets[j].confidence <= dets[arg.box].confidence
    ELSE arg.on = "frame"

\* C31 (LoopSpec): in both loops identify is called only in a cycle whose
\* detections hold a person, once, on the crop of the highest-confidence
\* person box or on the full frame when that crop is None; a cycle without a
\* person detection reaches write_event without an identify call and without
\* an unlock call, and its event is stored with person_name null.
C31_IdentifyOncePerPersonCycle ==
    [][ /\ identified' # identified =>
            /\ pc = "identify"
            /\ HasPerson(cycle.detections)
            /\ cycle.recording_id \notin identified
            /\ identified' = identified \cup {cycle.recording_id}
        /\ (pc = "identify" /\ pc' \in {"unlock", "write"}) =>
            /\ identified' # identified
            /\ C31_Expected(cycle'.identify_arg, cycle.detections,
                            cycle.person_crop)
        /\ (pc = "write" /\ HasPerson(cycle.detections)) =>
            /\ cycle.recording_id \in identified
            /\ cycle.identify_arg # NoArg
        /\ (pc = "write" /\ ~HasPerson(cycle.detections)) =>
            /\ cycle.recording_id \notin identified
            /\ cycle.identify_arg = NoArg
            /\ UnlocksOf(cycle.recording_id) = {}
            /\ db_events' # db_events =>
                 db_events'[Len(db_events')].person_name = None
        /\ b_hist'.identified # b_hist.identified =>
            /\ b_pc = "identify"
            /\ HasPerson(b_cycle.detections)
            /\ b_cycle.n \notin b_hist.identified
            /\ b_hist'.identified = b_hist.identified \cup {b_cycle.n}
        /\ (b_pc = "identify" /\ b_pc' = "write") =>
            /\ b_hist'.identified # b_hist.identified
            /\ C31_Expected(b_cycle'.identify_arg, b_cycle.detections,
                            b_cycle.person_crop)
        /\ (b_pc = "write" /\ HasPerson(b_cycle.detections)) =>
            /\ b_cycle.n \in b_hist.identified
            /\ b_cycle.identify_arg # NoArg
        /\ (b_pc = "write" /\ ~HasPerson(b_cycle.detections)) =>
            /\ b_cycle.n \notin b_hist.identified
            /\ b_cycle.identify_arg = NoArg
            /\ db_events' # db_events =>
                 db_events'[Len(db_events')].person_name = None
      ]_vars

\* A cycle whose identify call was made on the crop of the third detection,
\* the person of the highest confidence, is about to be stored, after a
\* cycle without a person was stored without an identify call.
C31_Witness ==
    /\ pc = "write"
    /\ cycle.identify_arg = [on |-> "crop", box |-> 3]
    /\ \E rid \in fetched :
         /\ rid \notin identified
         /\ RowsOf(rid) # {}
         /\ \A i \in RowsOf(rid) : db_events[i].person_name = None

\* C32 (UnlockSpec): last_unlock_time changes only in the step in which
\* polling_loop's own switchbot.unlock call returns true, and then to the
\* time of that step; it is left as it was by a cycle without a match, a
\* cycle inside the cooldown, an unlock call that returns false or raises,
\* the steps of blink_polling_loop, the Telegram /unlock command and the
\* dashboard's unlock endpoint.
C32_LastUnlockTimeOnlyOnOwnSuccess ==
    [][ /\ last_unlock_time' # last_unlock_time =>
            /\ pc = "unlock" /\ pc' = "write"
            /\ unlock_log'[Len(unlock_log')] =
                 [ recording_id |-> cycle.recording_id, outcome |-> "true",
                   at |-> unlock_log[Len(unlock_log)].at ]
            /\ last_unlock_time' = now
        /\ ( /\ pc = "unlock" /\ pc' = "write"
             /\ unlock_log'[Len(unlock_log')].outcome # "true" ) =>
            last_unlock_time' = last_unlock_time
        /\ (pc = "identify" /\ pc' = "write") =>
            last_unlock_time' = last_unlock_time
        /\ (pc = "detect" /\ pc' = "write") =>
            last_unlock_time' = last_unlock_time
        /\ commands'.unlocks # commands.unlocks =>
            last_unlock_time' = last_unlock_time
        /\ dashboard' # dashboard =>
            last_unlock_time' = last_unlock_time
        /\ b_pc' # b_pc => last_unlock_time' = last_unlock_time
      ]_vars

\* polling_loop has unlocked the door once and has since skipped a match
\* inside the cooldown; the door was also unlocked from Telegram and from
\* the dashboard, and blink_polling_loop has stored an event: the timestamp
\* is still that of the loop's own unlock.
C32_Witness ==
    /\ Len(unlock_log) = 1
    /\ unlock_log[1].outcome = "true"
    /\ last_unlock_time = unlock_log[1].at
    /\ \E i \in DOMAIN matched_log : matched_log[i].in_cooldown
    /\ commands.unlocks = 1
    /\ dashboard.status = 200
    /\ b_hist.rows # {}

\* Whether a detection list holds a person.
C33_Person(dets) == \E i \in DOMAIN dets : dets[i].label = "person"

\* C33 (LoopSpec): in a blink cycle with an alerter whose event was stored,
\* the alert depends on the detections and the match result only, and one
\* case applies: alert_stranger is called iff there is a person detection and
\* no name matched, alert_blink_motion iff there is no person detection
\* (other objects or none), and no alert iff a person was detected and a
\* name matched; a cycle calls at most one alert.
C33_AlertClassification ==
    [][ /\ alerts' # alerts =>
            LET a == alerts'[Len(alerts')] IN
            /\ b_pc = "alert"
            /\ has_alerter
            /\ alerts' = Append(alerts, a)
            /\ a.n = b_cycle.n
            /\ \A i \in DOMAIN alerts : alerts[i].n # b_cycle.n
            /\ a.kind \in {"alert_stranger", "alert_blink_motion"}
            /\ a.kind = "alert_stranger" <=>
                 (C33_Person(b_cycle.detections)
                     /\ b_cycle.matched_name = None)
            /\ a.kind = "alert_blink_motion" <=>
                 ~C33_Person(b_cycle.detections)
        /\ (b_pc = "write" /\ b_hist'.rows # b_hist.rows /\ has_alerter) =>
            /\ b_pc' \in {"alert", "sleep"}
            /\ b_pc' = "sleep" <=>
                 (C33_Person(b_cycle.detections)
                     /\ b_cycle.matched_name # None)
            /\ b_pc' = "alert" => b_cycle'.detections = b_cycle.detections
                                  /\ b_cycle'.matched_name = b_cycle.matched_name
      ]_vars

\* alert_stranger was called for one cycle and alert_blink_motion for a
\* cycle whose detections were a car only.
C33_Witness ==
    \E a, b \in DOMAIN alerts :
        /\ alerts[a].kind = "alert_stranger"
        /\ alerts[b].kind = "alert_blink_motion"
        /\ \E d \in CommittedDetectionsOf(alerts[b].event_id) :
              db_detections[d].label = "car"

\* C34 (AlerterSpec), as claimed: while the alerter is muted no send of an
\* alert is started, neither by a new alert call nor by an alert call that
\* was already in progress when mute() was called.
C34_NoSendWhileMuted ==
    [][ \A c \in AlertCallers :
          ( /\ telegram'.calls[c].pc = "send"
            /\ telegram.calls[c].pc # "send" )
          => ~is_muted(telegram) ]_vars

\* C35 (GallerySpec), as claimed: whatever reload or enroll does meanwhile,
\* an identify call that reads known_names[best_idx] finds an entry there,
\* and the name it returns is the name enrolled with the embedding it found
\* closest in known_encodings.
C35_NameOfClosestEmbedding ==
    (identify_t.pc = "done" /\ identify_t.result # None) =>
       /\ identify_t.result \in GalleryNames
       /\ FaceOf[identify_t.result] = identify_t.closest

\* C36 (LoopSpec), as claimed: every switchbot.unlock call of polling_loop
\* that returned true has a stored event of its cycle with unlock_granted
\* true as soon as that cycle is over, also when write_event raised.
C36_UnlockAlwaysRecorded ==
    \A u \in DOMAIN unlock_log :
        unlock_log[u].outcome = "true" =>
           \/ InFlight(unlock_log[u].recording_id)
           \/ \E i \in RowsOf(unlock_log[u].recording_id) :
                 /\ db_events[i].unlock_granted
                 /\ db_events[i].committed

\* C37 (RingSpec): a wait_for_event call that sees an empty history returns
\* None and leaves _last_event_id as it was, unset if no baseline exists;
\* the baseline is set by the first call that sees a non-empty history, to
\* the occurrence that call sees, which the call does not return and no
\* later call yields.
C37_EmptyHistoryLeavesBaseline ==
    /\ last_poll.seen = 0 =>
         /\ last_poll.ret = NoId
         /\ last_poll.after = last_poll.before
    /\ (last_poll.before = NoId /\ last_poll.seen # 0) =>
         /\ last_poll.ret = NoId
         /\ last_poll.after = ToStr(last_poll.seen)
         /\ baseline = last_poll.seen
    /\ last_event_id = NoId <=> baseline = 0
    /\ last_event_id = NoId =>
         \A p \in DOMAIN poll_log : poll_log[p].seen = 0
    /\ \A y \in DOMAIN yielded : yielded[y] # baseline

\* The first call saw an empty history and set nothing, the second set the
\* baseline, a later occurrence was yielded, and the last call saw an empty
\* history again and left _last_event_id at the yielded occurrence.
C37_Witness ==
    /\ Len(poll_log) = 2
    /\ poll_log[1].seen = 0
    /\ poll_log[2].seen = baseline
    /\ baseline # 0
    /\ Len(yielded) = 1
    /\ last_poll.seen = 0
    /\ last_poll.before = ToStr(yielded[1])
    /\ last_event_id = ToStr(yielded[1])

\* The event rows blink_polling_loop has stored.
C38_BlinkRows ==
    { i \in DOMAIN db_events : db_events[i].camera_id = BLINK_CAMERA_ID }

\* C38 (LoopSpec): blink_polling_loop starts a cycle only when at least
\* BLINK_MOTION_COOLDOWN seconds have passed since it last started one;
\* last_motion_time is set to the time of the start and by nothing else, so
\* a snapshot that fails leaves the cooldown running; any two events the loop
\* stores were started at least one cooldown apart.
C38_MotionCooldown ==
    [][ /\ (b_pc = "refresh" /\ b_pc' = "snapshot") =>
            /\ now - b_last_motion_time >= BLINK_MOTION_COOLDOWN
            /\ b_last_motion_time' = now
            /\ b_cycle'.recorded_at = now
        /\ b_last_motion_time' # b_last_motion_time =>
            (b_pc = "refresh" /\ b_pc' = "snapshot")
        /\ \A i, j \in C38_BlinkRows :
              i < j => db_events[j].recorded_at - db_events[i].recorded_at
                          >= BLINK_MOTION_COOLDOWN
        /\ \A i \in C38_BlinkRows :
              /\ db_events[i].recorded_at <= b_last_motion_time
              /\ b_pc \in {"snapshot", "detect", "identify", "write"} =>
                    b_cycle.recorded_at - db_events[i].recorded_at
                       >= BLINK_MOTION_COOLDOWN
      ]_vars

\* The snapshot of the first motion failed and nothing was stored for it;
\* the second motion was processed one cooldown after the first was started
\* and its event is stored.
C38_Witness ==
    /\ b_hist.unfetched = {1}
    /\ 2 \in b_hist.fetched
    /\ \E i \in C38_BlinkRows :
          db_events[i].recorded_at = StartTime + BLINK_MOTION_COOLDOWN
    /\ b_last_motion_time = StartTime + BLINK_MOTION_COOLDOWN

\* C39 (AlerterSpec): an alert call that passes the checks sets its
\* category's timestamp in the step that starts the send; no send that ends,
\* with success, TelegramError or RetryAfter, and no retry sleep changes a
\* timestamp; so an alert of the category called less than COALESCE_SECONDS
\* after one that passed is coalesced, whether or not anything was
\* delivered.
C39_TimestampKeptAfterFailedSend ==
    [][ \A c \in AlertCallers :
          /\ \A cat \in AlertCategories :
                /\ (AlertCall(c, cat) /\ telegram'.calls[c].pc = "send") =>
                      telegram'.last[cat] = telegram.clock
                /\ ( /\ AlertCall(c, cat)
                     /\ ~is_muted(telegram)
                     /\ telegram.passed_at[cat] # NoPass
                     /\ telegram.clock - telegram.passed_at[cat]
                           < COALESCE_SECONDS ) =>
                      /\ telegram'.calls[c].pc = "idle"
                      /\ telegram'.last_call.verdict = "coalesced"
                      /\ telegram'.last = telegram.last
          /\ \A o \in SendOutcomes :
                SendAttempt(c, o) => telegram'.last = telegram.last
          /\ RetrySleep(c) => telegram'.last = telegram.last
      ]_vars

\* Both attempts of polling_loop's stranger alert ended in RetryAfter, so
\* nothing was delivered and the call is about to return; a stranger alert
\* of blink_polling_loop, 30 s after the first passed, was coalesced.
C39_Witness ==
    /\ telegram.calls[CAMERA_ID].pc = "sleep"
    /\ telegram.calls[CAMERA_ID].attempt = SEND_ATTEMPTS
    /\ telegram.calls[CAMERA_ID].cat = "stranger"
    /\ telegram.calls[BLINK_CAMERA_ID].pc = "idle"
    /\ telegram.last_call.cat = "stranger"
    /\ telegram.last_call.verdict = "coalesced"
    /\ ~telegram.last_call.muted
    /\ telegram.last_call.at = telegram.passed_at["stranger"] + TickSeconds
    /\ telegram.last["stranger"] = telegram.passed_at["stranger"]

\* C40 (CommandSpec): within one run each update is passed to
\* _handle_update at most once and _offset never decreases, whether the
\* command handler raises, an exception leaves _handle_update or
\* get_updates fails; when an update is passed to _handle_update, _offset
\* is already update_id + 1, however the handling ends.
C40_UpdateHandledAtMostOnce ==
    [][ /\ commands'.offset >= commands.offset
        /\ commands'.handled # commands.handled =>
              LET id == commands'.handled[Len(commands'.handled)] IN
              /\ commands'.handled = Append(commands.handled, id)
              /\ \A h \in DOMAIN commands.handled :
                     commands.handled[h] # id
              /\ id >= commands.offset
              /\ commands'.offset = id + 1
        /\ commands'.handled = commands.handled =>
              commands'.offset = commands.offset
        /\ \A h \in DOMAIN commands'.handled :
              commands'.handled[h] < commands'.offset
      ]_vars

\* An exception left _handle_update for the second update and the rest of
\* the batch was dropped; the next get_updates, called with the advanced
\* offset, returned the third update only.
C40_Witness ==
    /\ commands.pc = "handle"
    /\ commands.last.outcome = "raises"
    /\ commands.handled = <<1, 2>>
    /\ commands.offset = 3
    /\ commands.batch = <<3>>

=============================================================================
